---- MODULE Spec2Model ----
(***************************************************************************)
(* A model of the governance decision engine: the four-valued action with  *)
(* its precedence, the Evidence path lookup, the four gates, the policy    *)
(* evaluator and the pipeline that folds the gates' verdicts into one      *)
(* Decision.                                                               *)
(*                                                                         *)
(* Conventions of the model                                                *)
(*  - A Python value is a record [t, n, s]: t is its type tag ("none",     *)
(*    "bool", "int", "float", "str"), n its number (a float is kept in     *)
(*    hundredths, a bool as 0/1) and s its text.                           *)
(*  - A text (a rationale, a user input, an intent name, a keyword) is a   *)
(*    sequence of chunks; the chunk SP is white space and every other      *)
(*    chunk is a run of non-space characters.  Adjacent chunks are         *)
(*    adjacent characters of the text.                                     *)
(*  - A dict is a function whose DOMAIN is its key set; <<>> is {}.        *)
(*  - Where a list or a dict stands as a value among other values (in a    *)
(*    policy document, as the value a rule's path leads to) it is a record *)
(*    with t = "list" and its items, or t = "dict" and its function d.     *)
(***************************************************************************)
EXTENDS Integers, Sequences, FiniteSets, TLC

\* ------------------------------------------------------------------------
\* Bounds of the model
\* ------------------------------------------------------------------------
MaxGates == 2
MaxCalls == 2
\* the rules of a policy handed to a PolicyEvaluator
MaxRules == 2

\* ------------------------------------------------------------------------
\* core/types.py: DecisionAction
\* ------------------------------------------------------------------------
ALLOW == "ALLOW"
RESTRICT == "RESTRICT"
ESCALATE == "ESCALATE"
STOP == "STOP"
DecisionAction == {ALLOW, RESTRICT, ESCALATE, STOP}
None == "None"

\* an ordering that ranks RESTRICT above ESCALATE
precedence_swapped(a) ==
  CASE a = ALLOW -> 0
    [] a = RESTRICT -> 2
    [] a = ESCALATE -> 1
    [] a = STOP -> 3

precedence(a) ==
  CASE a = ALLOW -> 0
    [] a = RESTRICT -> 1
    [] a = ESCALATE -> 2
    [] a = STOP -> 3

\* dominance that an equal severity would satisfy too
dominates_nonstrict(a, other) == precedence(a) >= precedence(other)
dominates(a, other) == precedence(a) > precedence(other)

\* ------------------------------------------------------------------------
\* Python values
\* ------------------------------------------------------------------------
NoneV == [t |-> "none", n |-> 0, s |-> ""]
BoolV(b) == [t |-> "bool", n |-> IF b THEN 1 ELSE 0, s |-> ""]
IntV(i) == [t |-> "int", n |-> i, s |-> ""]
FloatV(h) == [t |-> "float", n |-> h, s |-> ""]
StrV(x) == [t |-> "str", n |-> 0, s |-> x]

IsNumber(v) == v.t \in {"bool", "int", "float"}
\* a reading that takes an int for a count of hundredths
Hundredths_raw(v) == v.n
\* the numeric value of a number, in hundredths
Hundredths(v) == IF v.t = "float" THEN v.n ELSE v.n * 100
\* a comparison that equality satisfies too
Below_nonstrict(v, h) == Hundredths(v) <= h
\* "v < threshold" and "v > threshold" of a number v, the threshold in hundredths
Below(v, h) == Hundredths(v) < h
Above(v, h) == Hundredths(v) > h
\* bool(v)
Truthy(v) ==
  CASE v.t = "none" -> FALSE
    [] v.t = "str" -> v.s # ""
    [] OTHER -> v.n # 0
\* "if v:" in the place of "v is True"
IsTrue_truthy(v) == Truthy(v)
IsTrue(v) == v.t = "bool" /\ v.n = 1
\* "if not v:" in the place of "v is False"
IsFalse_falsy(v) == ~Truthy(v)
IsFalse(v) == v.t = "bool" /\ v.n = 0

TwoDigits(k) == IF k < 10 THEN "0" \o ToString(k) ELSE ToString(k)
\* f"{v:.2f}" of a number
Fixed2(v) == ToString(Hundredths(v) \div 100) \o "." \o TwoDigits(Hundredths(v) % 100)
\* what f"{v:.2f}" raises, "" when it formats
Fixed2Raises(v) ==
  CASE v.t = "none" -> "TypeError"
    [] v.t = "str" -> "ValueError"
    [] OTHER -> ""
\* f"{v}": str(v)
Str(v) ==
  CASE v.t = "none" -> "None"
    [] v.t = "bool" -> (IF v.n = 1 THEN "True" ELSE "False")
    [] v.t = "int" -> ToString(v.n)
    [] v.t = "float" ->
         ToString(v.n \div 100) \o "." \o
           (IF v.n % 10 = 0 THEN ToString((v.n % 100) \div 10) ELSE TwoDigits(v.n % 100))
    [] OTHER -> v.s

\* ------------------------------------------------------------------------
\* Texts
\* ------------------------------------------------------------------------
SP == " "

RECURSIVE Words(_)
\* the words of ws joined by single spaces
Words(ws) ==
  IF Len(ws) = 0 THEN <<>>
  ELSE IF Len(ws) = 1 THEN <<ws[1]>>
  ELSE <<ws[1], SP>> \o Words(Tail(ws))

\* needle in haystack (Python's substring test), on chunks
Contains(haystack, needle) ==
  \E i \in 0..(Len(haystack) - Len(needle)) :
    \A j \in 1..Len(needle) : haystack[i + j] = needle[j]

\* str.lower(), chunk by chunk
LowerChunk(c) ==
  CASE c = "Bypass" -> "bypass"
    [] c = "BYPASS" -> "bypass"
    [] c = "Fake" -> "fake"
    [] c = "Refund" -> "refund"
    [] c = "Payment" -> "payment"
    [] OTHER -> c
Lower(text) == [i \in 1..Len(text) |-> LowerChunk(text[i])]

\* str.upper(), chunk by chunk
UpperChunk(c) ==
  CASE c = "Fraud" -> "FRAUD"
    [] c = "Illegal" -> "ILLEGAL"
    [] c = "Security" -> "SECURITY"
    [] c = "Request" -> "REQUEST"
    [] c = "Sensitive" -> "SENSITIVE"
    [] c = "Intent" -> "INTENT"
    [] c = "Facts" -> "FACTS"
    [] c = "Fact" -> "FACT"
    [] c = "Retrieval" -> "RETRIEVAL"
    [] c = "Knowledge" -> "KNOWLEDGE"
    [] c = "Multiple" -> "MULTIPLE"
    [] c = "User" -> "USER"
    [] c = "Custom" -> "CUSTOM"
    [] c = "override" -> "OVERRIDE"
    [] c = "ok" -> "OK"
    [] c = "'" -> "'"
    [] OTHER -> c
Upper(text) == [i \in 1..Len(text) |-> UpperChunk(text[i])]

RECURSIVE SkipSpaces(_)
SkipSpaces(text) ==
  IF Len(text) > 0 /\ Head(text) = SP THEN SkipSpaces(Tail(text)) ELSE text

RECURSIVE TakeWord(_)
TakeWord(text) ==
  IF Len(text) = 0 \/ Head(text) = SP THEN <<>>
  ELSE <<Head(text)>> \o TakeWord(Tail(text))

\* len(text.split())
RECURSIVE SplitCount(_)
SplitCount(text) ==
  LET rest == SkipSpaces(text)
  IN IF Len(rest) = 0 THEN 0
     ELSE 1 + SplitCount(SubSeq(rest, Len(TakeWord(rest)) + 1, Len(rest)))

\* text.split()[0], for a text that has a word
FirstWord(text) == TakeWord(SkipSpaces(text))

\* text.replace(" ", "_")
ReplaceSpaces(text) == [i \in 1..Len(text) |-> IF text[i] = SP THEN "_" ELSE text[i]]

\* ------------------------------------------------------------------------
\* core/types.py: Intent, Context, Evidence
\* ------------------------------------------------------------------------
EmptyDict == <<>>
\* dict.get(key, default)
DictGet(d, key, default) == IF key \in DOMAIN d THEN d[key] ELSE default

Intent(name, confidence, parameters) ==
  [name |-> name, confidence |-> confidence, parameters |-> parameters]
Context(user_id, channel) == [user_id |-> user_id, channel |-> channel]
Evidence(facts, rag, topic) ==
  [facts |-> facts, rag |-> rag, topic |-> topic, metadata |-> EmptyDict]

EvidenceFields == {"facts", "rag", "topic", "metadata"}

\* Evidence.get(path, default) for a two-part path "namespace.key": the first
\* part is an attribute of the Evidence object, the second a key of its dict
EvidenceGet(evidence, path, default) ==
  IF path[1] \notin EvidenceFields THEN default
  ELSE IF path[2] \notin DOMAIN evidence[path[1]] THEN default
  ELSE evidence[path[1]][path[2]]

\* ------------------------------------------------------------------------
\* policy/evaluator.py: the policy a PolicyEvaluator holds
\* ------------------------------------------------------------------------
\* no PolicyEvaluator was passed (policy=None)
NoPolicy == [name |-> "None", version |-> "None", rules |-> <<>>, gates |-> EmptyDict,
             given |-> FALSE]
Policy(name, version, rules, gates) ==
  [name |-> name, version |-> version, rules |-> rules, gates |-> gates, given |-> TRUE]

\* PolicyEvaluator.get_gate_config(gate_name)
get_gate_config(policy, gate_name) == DictGet(policy.gates, gate_name, EmptyDict)

\* the "if policy: policy_config = ...; if policy_config:" head of every gate:
\* the override map the gate applies in this call, {} when it applies none
PolicyConfig(policy, gate_name) ==
  IF policy.given THEN get_gate_config(policy, gate_name) ELSE EmptyDict

\* ------------------------------------------------------------------------
\* What a gate's evaluate does: the instance fields it leaves behind, and
\* either the (action, rationale) pair it returns or the exception it raises
\* ------------------------------------------------------------------------
Returns(f, action, rationale) ==
  [f |-> f, action |-> action, rationale |-> rationale, raised |-> ""]
Raises(f, exc) == [f |-> f, action |-> None, rationale |-> <<>>, raised |-> exc]

\* intent.parameters.get("user_input", "").lower()
UserInputLower(intent) == Lower(DictGet(intent.parameters, "user_input", <<>>))

\* ------------------------------------------------------------------------
\* gates/safety.py
\* ------------------------------------------------------------------------
FRAUD_KEYWORDS == <<
  <<"bypass">>,
  <<"credit", SP, "card", SP, "generator">>,
  <<"card", SP, "number", SP, "generator">>,
  <<"cvv", SP, "generator">>,
  <<"fake", SP, "payment">>,
  <<"payment", SP, "fraud">>,
  <<"chargeback", SP, "fraud">>,
  <<"refund", SP, "fraud">>,
  <<"free", SP, "credit">>,
  <<"steal", SP, "payment">>,
  <<"hack", SP, "payment">>,
  <<"payment", SP, "system">>,
  <<"get", SP, "services", SP, "for", SP, "free">> >>

ILLEGAL_CONTENT_KEYWORDS == <<
  <<"make", SP, "bomb">>,
  <<"how", SP, "to", SP, "make", SP, "explosive">>,
  <<"drug", SP, "manufacturing">>,
  <<"synthetic", SP, "drug">>,
  <<"illegal", SP, "drug">>,
  <<"weapon", SP, "manufactur">>,
  <<"fake", SP, "id">>,
  <<"fake", SP, "identification">>,
  <<"identity", SP, "theft">>,
  <<"money", SP, "launder">>,
  <<"without", SP, "showing", SP, "id">>,
  <<"without", SP, "id">>,
  <<"buy", SP, "cigarettes">>,
  <<"age", SP, "restricted">> >>

SECURITY_ATTACK_KEYWORDS == <<
  <<"sql", SP, "injection">>,
  <<"xss", SP, "attack">>,
  <<"ddos", SP, "attack">>,
  <<"hack", SP, "into">>,
  <<"exploit", SP, "vulnerability">>,
  <<"brute", SP, "force">>,
  <<"inject", SP, "code">> >>

Range(seq) == {seq[i] : i \in 1..Len(seq)}

\* SafetyGate.__init__
SafetyGate(additional_fraud_keywords, additional_illegal_keywords, stop_on_sensitive_stop) ==
  [stop_on_sensitive_stop |-> stop_on_sensitive_stop,
   fraud_keywords |-> Range(FRAUD_KEYWORDS) \cup additional_fraud_keywords,
   illegal_keywords |-> Range(ILLEGAL_CONTENT_KEYWORDS) \cup additional_illegal_keywords,
   security_keywords |-> Range(SECURITY_ATTACK_KEYWORDS)]

\* The order in which this process iterates a set of keywords.  Python fixes
\* no order for a set of strings: it depends on the process's hash seed.  The
\* model has two processes: one meets the keywords of a set in the order of
\* KeywordOrder, the other in the reverse order.
KeywordOrder == FRAUD_KEYWORDS \o ILLEGAL_CONTENT_KEYWORDS \o SECURITY_ATTACK_KEYWORDS
                  \o << <<"gift", SP, "card">>, <<"lock", SP, "pick">> >>
KeywordRank(k) == CHOOSE i \in 1..Len(KeywordOrder) : KeywordOrder[i] = k

\* "for keyword in keywords: if keyword in user_input: return ...": the
\* keyword the loop returns with, <<>> when it ends without a match
FirstKeyword(keywords, user_input, hash_seed) ==
  LET hits == {k \in keywords : Contains(user_input, k)}
  IN IF hits = {} THEN <<>>
     ELSE IF hash_seed = 0
          THEN CHOOSE k \in hits : \A o \in hits : KeywordRank(k) <= KeywordRank(o)
          ELSE CHOOSE k \in hits : \A o \in hits : KeywordRank(k) >= KeywordRank(o)

\* SafetyGate.evaluate, lines 119-129: the policy override, written to the instance
SafetyOverride(f, policy) ==
  LET cfg == PolicyConfig(policy, "safety")
  IN IF DOMAIN cfg = {} THEN f
     ELSE [f EXCEPT
             !.fraud_keywords = @ \cup DictGet(cfg, "additional_fraud_keywords", {}),
             !.illegal_keywords = @ \cup DictGet(cfg, "additional_illegal_keywords", {}),
             !.stop_on_sensitive_stop = DictGet(cfg, "stop_on_sensitive_stop", @)]

Quoted(text) == <<"'">> \o text \o <<"'">>

\* SafetyGate.evaluate, lines 131-192: the rules, on the fields f in force
SafetyRules(f, intent, evidence, hash_seed) ==
  LET user_input == UserInputLower(intent)
      fraud == FirstKeyword(f.fraud_keywords, user_input, hash_seed)
      illegal == FirstKeyword(f.illegal_keywords, user_input, hash_seed)
      security == FirstKeyword(f.security_keywords, user_input, hash_seed)
      harm_risk == EvidenceGet(evidence, <<"topic", "harm_risk">>, BoolV(FALSE))
      intent_name == Lower(intent.name)
      is_sensitive == EvidenceGet(evidence, <<"topic", "is_sensitive">>, BoolV(FALSE))
  IN IF fraud # <<>> THEN
       Returns(f, STOP,
         Words(<<"Fraud", "request", "detected:">>) \o <<SP>> \o Quoted(fraud) \o <<SP>>
           \o Words(<<"-", "Refusing", "to", "process", "payment", "bypass/fraud", "attempt">>))
     ELSE IF illegal # <<>> THEN
       Returns(f, STOP,
         Words(<<"Illegal", "content", "request", "detected:">>) \o <<SP>> \o Quoted(illegal)
           \o <<SP>> \o Words(<<"-", "Refusing", "to", "provide", "illegal/information">>))
     ELSE IF security # <<>> THEN
       Returns(f, STOP,
         Words(<<"Security", "attack", "detected:">>) \o <<SP>> \o Quoted(security) \o <<SP>>
           \o Words(<<"-", "Refusing", "to", "process", "security", "request">>))
     ELSE IF IsTrue(harm_risk) THEN
       IF Contains(intent_name, <<"fraud">>) \/ Contains(intent_name, <<"payment">>)
            \/ Contains(intent_name, <<"bypass">>)
       THEN Returns(f, STOP,
              Words(<<"Fraud", "request", "detected:">>) \o <<SP>> \o Quoted(intent.name)
                \o <<SP>>
                \o Words(<<"-", "Refusing", "to", "process", "payment", "bypass/fraud", "attempt">>))
       ELSE IF Contains(intent_name, <<"illegal">>) \/ Contains(intent_name, <<"restricted">>)
       THEN Returns(f, STOP,
              Words(<<"Illegal", "content", "request", "detected:">>) \o <<SP>>
                \o Quoted(intent.name) \o <<SP>>
                \o Words(<<"-", "Refusing", "to", "provide", "illegal/restricted", "information">>))
       ELSE Returns(f, STOP,
              Words(<<"Request", "flagged", "as", "high-risk/harmful", "-", "Refusing", "to",
                      "process">>))
     ELSE IF f.stop_on_sensitive_stop /\ Truthy(is_sensitive) THEN
       Returns(f, STOP,
         Words(<<"Sensitive", "topic", "with", "stop", "flag", "-", "Intent">>) \o <<SP>>
           \o Quoted(intent.name) \o <<SP>> \o Words(<<"requires", "human", "specialist">>))
     ELSE
       Returns(f, None,
         Words(<<"No", "safety", "risks", "detected", "for", "intent">>) \o <<SP>>
           \o Quoted(intent.name))

\* SafetyGate.evaluate
SafetyEvaluate(f, intent, evidence, policy, hash_seed) ==
  SafetyRules(SafetyOverride(f, policy), intent, evidence, hash_seed)

\* SafetyGate.get_config_snapshot
SafetySnapshot(f) ==
  [stop_on_sensitive_stop |-> f.stop_on_sensitive_stop,
   fraud_keywords_count |-> Cardinality(f.fraud_keywords),
   illegal_keywords_count |-> Cardinality(f.illegal_keywords),
   security_keywords_count |-> Cardinality(f.security_keywords)]

\* SafetyGate.get_input_summary
SafetySummary(evidence) ==
  [user_input |-> StrV("<redacted_for_privacy>"),
   topic_flags |-> [harm_risk |-> DictGet(evidence.topic, "harm_risk", NoneV),
                    is_sensitive |-> DictGet(evidence.topic, "is_sensitive", NoneV)]]

\* ------------------------------------------------------------------------
\* gates/uncertainty.py
\* ------------------------------------------------------------------------
\* UncertaintyGate.__init__ (confidence_threshold in hundredths)
UncertaintyGate(confidence_threshold, stop_on_conflict, outdated_version_days) ==
  [confidence_threshold |-> confidence_threshold,
   stop_on_conflict |-> stop_on_conflict,
   outdated_version_days |-> outdated_version_days]

\* UncertaintyGate.evaluate, lines 65-77: the policy override, written to the
\* instance fields f
UncertaintyOverride(f, policy) ==
  LET cfg == PolicyConfig(policy, "uncertainty")
  IN IF DOMAIN cfg = {} THEN f
     ELSE [confidence_threshold |-> DictGet(cfg, "confidence_threshold", f.confidence_threshold),
           stop_on_conflict |-> DictGet(cfg, "stop_on_conflict", f.stop_on_conflict),
           outdated_version_days |-> DictGet(cfg, "outdated_version_days", f.outdated_version_days)]

\* UncertaintyGate.evaluate, lines 79-133: the rules, on the fields f in force.
\* An ordering comparison of a value that is no number with a number raises
\* TypeError.
UncertaintyRules(f, intent, evidence) ==
  LET rag_confidence == EvidenceGet(evidence, <<"rag", "confidence">>, FloatV(100))
      rag_source == EvidenceGet(evidence, <<"rag", "source">>, StrV("unknown"))
      has_conflicts == EvidenceGet(evidence, <<"rag", "has_conflicts">>, BoolV(FALSE))
      conflict_count == EvidenceGet(evidence, <<"rag", "conflict_count">>, IntV(0))
      kb_version == EvidenceGet(evidence, <<"rag", "kb_version">>, StrV("unknown"))
      kb_age_days == EvidenceGet(evidence, <<"rag", "kb_age_days">>, IntV(0))
      tool_disagreement == EvidenceGet(evidence, <<"rag", "tool_disagreement">>, BoolV(FALSE))
      retrieval_coverage == EvidenceGet(evidence, <<"rag", "coverage">>, FloatV(100))
      coverage_threshold == EvidenceGet(evidence, <<"rag", "coverage_threshold">>, FloatV(80))
  IN IF ~IsNumber(rag_confidence) THEN Raises(f, "TypeError")
     ELSE IF Below(rag_confidence, f.confidence_threshold) THEN
       Returns(f, RESTRICT,
         Words(<<"Retrieval", "confidence", Fixed2(rag_confidence), "is", "below", "threshold",
                 Fixed2(FloatV(f.confidence_threshold)), "(source:">>)
           \o <<SP, Str(rag_source), ")">>)
     ELSE IF ~Truthy(has_conflicts) /\ ~IsNumber(conflict_count) THEN Raises(f, "TypeError")
     ELSE IF Truthy(has_conflicts) \/ Above(conflict_count, 0) THEN
       Returns(f, IF f.stop_on_conflict THEN STOP ELSE RESTRICT,
         Words(<<"Retrieval", "has", Str(conflict_count), "conflicting", "results", "-",
                 "cannot", "determine", "correct", "answer">>))
     ELSE IF ~IsNumber(kb_age_days) THEN Raises(f, "TypeError")
     ELSE IF Above(kb_age_days, f.outdated_version_days * 100) THEN
       Returns(f, RESTRICT,
         Words(<<"Knowledge", "base", "version", Str(kb_version), "is", Str(kb_age_days),
                 "days", "old", "(outdated", "threshold:", ToString(f.outdated_version_days),
                 "days)">>))
     ELSE IF Truthy(tool_disagreement) THEN
       Returns(f, ESCALATE,
         Words(<<"Multiple", "tools", "provided", "conflicting", "results", "-", "requires",
                 "human", "review">>))
     ELSE IF ~IsNumber(retrieval_coverage) \/ ~IsNumber(coverage_threshold)
       THEN Raises(f, "TypeError")
     ELSE IF Below(retrieval_coverage, Hundredths(coverage_threshold)) THEN
       Returns(f, RESTRICT,
         Words(<<"Retrieval", "coverage", Fixed2(retrieval_coverage), "is", "incomplete",
                 "(threshold:">>) \o <<SP, Fixed2(coverage_threshold), ")">>)
     ELSE
       Returns(f, None,
         Words(<<"Uncertainty", "is", "acceptable", "(confidence:">>)
           \o <<SP, Fixed2(rag_confidence), ",", SP, "coverage:", SP,
                Fixed2(retrieval_coverage), ")">>)

\* UncertaintyGate.evaluate
UncertaintyEvaluate(f, intent, evidence, policy) ==
  UncertaintyRules(UncertaintyOverride(f, policy), intent, evidence)

\* a snapshot that shows the defaults of the constructor
UncertaintySnapshot_defaults(f) == UncertaintyGate(60, FALSE, 30)
\* UncertaintyGate.get_config_snapshot
UncertaintySnapshot(f) == f

\* UncertaintyGate.get_input_summary
UncertaintySummary(evidence) ==
  [k \in {"confidence", "source", "has_conflicts", "conflict_count", "kb_version",
          "kb_age_days", "coverage", "tool_disagreement"} |-> DictGet(evidence.rag, k, NoneV)]

\* ------------------------------------------------------------------------
\* gates/fact_verifiability.py
\* ------------------------------------------------------------------------
\* FactVerifiabilityGate.__init__ (verifiable_threshold in hundredths)
FactVerifiabilityGate(require_realtime_facts, verifiable_threshold, stop_on_unverifiable) ==
  [require_realtime_facts |-> require_realtime_facts,
   verifiable_threshold |-> verifiable_threshold,
   stop_on_unverifiable |-> stop_on_unverifiable]

\* FactVerifiabilityGate.evaluate, lines 64-76: the policy override
FactOverride(f, policy) ==
  LET cfg == PolicyConfig(policy, "fact_verifiability")
  IN IF DOMAIN cfg = {} THEN f
     ELSE [require_realtime_facts |->
             DictGet(cfg, "require_realtime_facts", f.require_realtime_facts),
           verifiable_threshold |-> DictGet(cfg, "verifiable_threshold", f.verifiable_threshold),
           stop_on_unverifiable |-> DictGet(cfg, "stop_on_unverifiable", f.stop_on_unverifiable)]

UntrustedSources == {"unknown", "untrusted", "user_provided"}
StaleFreshness == {"stale", "outdated", "expired"}

\* FactVerifiabilityGate.evaluate, lines 78-141: the rules, on the fields f in
\* force.  f"{v:.2f}" raises for a value that is no number.
FactRules(f, intent, evidence) ==
  LET verifiable == EvidenceGet(evidence, <<"facts", "verifiable">>, BoolV(TRUE))
      verifiable_confidence ==
        EvidenceGet(evidence, <<"facts", "verifiable_confidence">>, FloatV(100))
      needs_realtime == intent.name \in f.require_realtime_facts
      is_realtime_dependent ==
        Truthy(EvidenceGet(evidence, <<"facts", "requires_realtime">>, BoolV(needs_realtime)))
      fact_source == EvidenceGet(evidence, <<"facts", "source">>, StrV("unknown"))
      fact_freshness == EvidenceGet(evidence, <<"facts", "freshness">>, StrV("unknown"))
      threshold == Fixed2(FloatV(f.verifiable_threshold))
  IN IF IsFalse(verifiable) THEN
       IF is_realtime_dependent THEN
         Returns(f, IF f.stop_on_unverifiable THEN STOP ELSE RESTRICT,
           <<"Intent", SP>> \o Quoted(intent.name) \o <<SP>>
             \o Words(<<"requires", "real-time", "facts", "but", "facts", "are", "not",
                        "verifiable", "(source:">>)
             \o <<SP, Str(fact_source), ",", SP, "freshness:", SP, Str(fact_freshness), ")">>)
       ELSE IF Fixed2Raises(verifiable_confidence) # ""
         THEN Raises(f, Fixed2Raises(verifiable_confidence))
       ELSE
         Returns(f, RESTRICT,
           Words(<<"Facts", "are", "not", "verifiable", "(source:">>)
             \o <<SP, Str(fact_source), ",", SP, "confidence:", SP,
                  Fixed2(verifiable_confidence), ")">>)
     ELSE IF ~IsNumber(verifiable_confidence) THEN Raises(f, "TypeError")
     ELSE IF Below(verifiable_confidence, f.verifiable_threshold) THEN
       IF is_realtime_dependent THEN
         Returns(f, RESTRICT,
           <<"Intent", SP>> \o Quoted(intent.name) \o <<SP>>
             \o Words(<<"requires", "high-confidence", "facts,", "but", "confidence", "is",
                        Fixed2(verifiable_confidence), "(threshold:">>)
             \o <<SP, threshold, ")">>)
       ELSE
         Returns(f, None,
           Words(<<"Fact", "verifiability", "confidence", "is", Fixed2(verifiable_confidence),
                   "(below", "threshold">>) \o <<SP, threshold, ")">>)
     ELSE IF fact_source.t = "str" /\ fact_source.s \in UntrustedSources THEN
       IF is_realtime_dependent THEN
         Returns(f, RESTRICT,
           <<"Intent", SP>> \o Quoted(intent.name) \o <<SP>>
             \o Words(<<"requires", "trusted", "sources,", "but", "source", "is">>)
             \o <<SP>> \o Quoted(<<Str(fact_source)>>))
       ELSE
         Returns(f, None,
           Words(<<"Fact", "source", "is">>) \o <<SP>> \o Quoted(<<Str(fact_source)>>)
             \o <<SP>> \o Words(<<"-", "consider", "verification">>))
     ELSE IF fact_freshness.t = "str" /\ fact_freshness.s \in StaleFreshness THEN
       Returns(f, RESTRICT,
         Words(<<"Facts", "may", "be", "stale", "(freshness:">>)
           \o <<SP, Str(fact_freshness), ")", SP>> \o Words(<<"-", "recommend", "refresh">>))
     ELSE
       Returns(f, None,
         Words(<<"Facts", "are", "verifiable", "(confidence:">>)
           \o <<SP, Fixed2(verifiable_confidence), ",", SP, "source:", SP, Str(fact_source), ")">>)

\* FactVerifiabilityGate.evaluate
FactEvaluate(f, intent, evidence, policy) == FactRules(FactOverride(f, policy), intent, evidence)

\* FactVerifiabilityGate.get_config_snapshot
FactSnapshot(f) == f

\* FactVerifiabilityGate.get_input_summary ("verifiable" holds the whole facts dict)
FactSummary(evidence) ==
  [verifiable |-> evidence.facts,
   verifiable_confidence |-> DictGet(evidence.facts, "verifiable_confidence", NoneV),
   source |-> DictGet(evidence.facts, "source", NoneV),
   freshness |-> DictGet(evidence.facts, "freshness", NoneV),
   requires_realtime |-> DictGet(evidence.facts, "requires_realtime", NoneV)]

\* ------------------------------------------------------------------------
\* gates/responsibility.py
\* ------------------------------------------------------------------------
DefaultFinancialIntents ==
  {<<"refund">>, <<"compensation">>, <<"discount_approval">>, <<"credit_request">>,
   <<"payment_adjustment">>}
DefaultAuthorityIntents ==
  {<<"policy_change">>, <<"contract_modification">>, <<"commitment">>, <<"guarantee">>}
DefaultSensitiveIntents ==
  {<<"legal_advice">>, <<"medical_advice">>, <<"regulatory_compliance">>}

\* ResponsibilityGate.__init__: "set(arg or [defaults])", an empty or missing
\* list gives the defaults
ResponsibilityGate(financial_intents, authority_intents, sensitive_intents, stop_on_sensitive) ==
  [financial_intents |->
     IF financial_intents = {} THEN DefaultFinancialIntents ELSE financial_intents,
   authority_intents |->
     IF authority_intents = {} THEN DefaultAuthorityIntents ELSE authority_intents,
   sensitive_intents |->
     IF sensitive_intents = {} THEN DefaultSensitiveIntents ELSE sensitive_intents,
   stop_on_sensitive |-> stop_on_sensitive]

\* ResponsibilityGate.evaluate, lines 84-99: the policy override
ResponsibilityOverride(f, policy) ==
  LET cfg == PolicyConfig(policy, "responsibility")
  IN IF DOMAIN cfg = {} THEN f
     ELSE [financial_intents |-> DictGet(cfg, "financial_intents", f.financial_intents),
           authority_intents |-> DictGet(cfg, "authority_intents", f.authority_intents),
           sensitive_intents |-> DictGet(cfg, "sensitive_intents", f.sensitive_intents),
           stop_on_sensitive |-> DictGet(cfg, "stop_on_sensitive", f.stop_on_sensitive)]

\* a keyword list that misses the compensation words
compensation_keywords_other ==
  {<<"legal_advice">>, <<"medical_advice">>, <<"regulatory_compliance">>}
compensation_keywords ==
  {<<"compensat">>, <<"refund">>, <<"credit">>, <<"discount">>, <<"reimburse">>}

\* ResponsibilityGate.evaluate, lines 101-160: the rules, on the fields f in force
ResponsibilityRules(f, intent, evidence) ==
  LET has_financial_impact ==
        EvidenceGet(evidence, <<"topic", "has_financial_impact">>, BoolV(FALSE))
      requires_authority == EvidenceGet(evidence, <<"topic", "requires_authority">>, BoolV(FALSE))
      is_irreversible == EvidenceGet(evidence, <<"topic", "is_irreversible">>, BoolV(FALSE))
      is_sensitive == EvidenceGet(evidence, <<"topic", "is_sensitive">>, BoolV(FALSE))
      user_input == UserInputLower(intent)
      subject == <<"Intent", SP>> \o Quoted(intent.name) \o <<SP>>
  IN IF intent.name \in f.financial_intents \/ Truthy(has_financial_impact) THEN
       Returns(f, ESCALATE,
         subject \o Words(<<"has", "financial", "responsibility", "-", "requires", "human",
                            "review">>))
     ELSE IF intent.name \in f.authority_intents \/ Truthy(requires_authority) THEN
       Returns(f, ESCALATE,
         subject \o Words(<<"requires", "organizational", "authority", "-", "cannot", "commit",
                            "autonomously">>))
     ELSE IF Truthy(is_irreversible) THEN
       Returns(f, ESCALATE,
         subject \o Words(<<"is", "irreversible", "-", "requires", "explicit", "approval">>))
     ELSE IF intent.name \in f.sensitive_intents \/ Truthy(is_sensitive) THEN
       Returns(f, IF f.stop_on_sensitive THEN STOP ELSE ESCALATE,
         subject \o Words(<<"involves", "sensitive", "topic", "-", "outside", "autonomous",
                            "scope">>))
     ELSE IF \E keyword \in compensation_keywords : Contains(user_input, keyword) THEN
       Returns(f, ESCALATE,
         Words(<<"User", "input", "suggests", "compensation/financial", "request", "-",
                 "requires", "human", "review">>))
     ELSE
       Returns(f, None,
         subject \o Words(<<"is", "within", "responsibility", "boundaries">>))

\* ResponsibilityGate.evaluate
ResponsibilityEvaluate(f, intent, evidence, policy) ==
  ResponsibilityRules(ResponsibilityOverride(f, policy), intent, evidence)

\* ResponsibilityGate.get_config_snapshot
ResponsibilitySnapshot(f) == f

\* ResponsibilityGate.get_input_summary
ResponsibilitySummary(evidence) ==
  [k \in {"has_financial_impact", "requires_authority", "is_irreversible", "is_sensitive"}
     |-> DictGet(evidence.topic, k, NoneV)]

\* ------------------------------------------------------------------------
\* policy/evaluator.py: PolicyEvaluator
\* ------------------------------------------------------------------------
RECURSIVE Join(_)
\* the text as one string
Join(text) == IF Len(text) = 0 THEN "" ELSE Head(text) \o Join(Tail(text))

\* a rule of a policy; conditions is a sequence of [path, operator, expected],
\* one entry per (field path, operator) pair of the conditions map, in the
\* map's order; the operand expected is a value, or a list of values when
\* list is TRUE
Rule(name, conditions, action, reason, enabled, priority) ==
  [name |-> name, action |-> action, conditions |-> conditions, reason |-> reason,
   enabled |-> enabled, priority |-> priority]
Operand(v) == [v |-> v, list |-> FALSE, items |-> <<>>]
ListOperand(items) == [v |-> NoneV, list |-> TRUE, items |-> items]

\* a list, a dict and an object of another class (a type, a bound method) as
\* Python values
ListV(items) == [t |-> "list", n |-> 0, s |-> "", items |-> items]
DictV(d) == [t |-> "dict", n |-> 0, s |-> "", d |-> d]
ObjectV(repr) == [t |-> "object", n |-> 0, s |-> repr]
\* the operand of a condition as the Python value the YAML document gave
OperandValue(expected) == IF expected.list THEN ListV(expected.items) ELSE expected.v

RECURSIVE PyEq(_, _)
\* Python's ==
PyEq(a, b) ==
  IF IsNumber(a) /\ IsNumber(b) THEN Hundredths(a) = Hundredths(b)
  ELSE IF a.t = "list" /\ b.t = "list"
    THEN /\ Len(a.items) = Len(b.items)
         /\ \A i \in 1..Len(a.items) : PyEq(a.items[i], b.items[i])
  ELSE IF a.t = "dict" /\ b.t = "dict" THEN a.d = b.d
  ELSE a.t = b.t /\ a.s = b.s
\* "x in items" of a list
PyIn(x, items) == \E i \in 1..Len(items) : PyEq(x, items[i])

\* the text of a string of the model, in chunks, for the substring tests
StrChunks(s) ==
  CASE s = "" -> <<>>
    [] s = "refund" -> <<"re", "fund">>
    [] s = "order_status_query" -> <<"order", "_status_", "query">>
    [] s = "user_123" -> <<"user", "_123">>
    [] s = "1.0" -> <<"1.", "0">>
    [] s = "2.0" -> <<"2.", "0">>
    [] s = "a name" -> <<"a ", "name">>
    [] OTHER -> <<s>>
\* value.startswith(prefix), value.endswith(suffix), on chunks
StartsWith(value, prefix) ==
  Len(prefix) <= Len(value) /\ SubSeq(value, 1, Len(prefix)) = prefix
EndsWith(value, suffix) ==
  /\ Len(suffix) <= Len(value)
  /\ SubSeq(value, Len(value) - Len(suffix) + 1, Len(value)) = suffix
\* re.search(pattern, value) for the patterns of the model: "(" does not
\* compile (re.error), "^" anchors the literal after it at the start, any
\* other pattern is a literal
ReSearch(pattern, value) ==
  CASE pattern = "(" -> "re.error"
    [] pattern = "^re" -> (IF StartsWith(StrChunks(value), <<"re">>) THEN "True" ELSE "False")
    [] OTHER -> (IF Contains(StrChunks(value), StrChunks(pattern)) THEN "True" ELSE "False")

\* PolicyEvaluator._load_rules: the enabled rules by descending priority, ties
\* in file order
RECURSIVE SelectSeq2(_, _)
SelectSeq2(rules, keep) ==
  IF Len(rules) = 0 THEN <<>>
  ELSE (IF keep[1] THEN <<Head(rules)>> ELSE <<>>)
         \o SelectSeq2(Tail(rules), Tail(keep))
\* a filter that keeps the disabled rules too
EnabledRules_all(rules) == rules
EnabledRules(rules) == SelectSeq2(rules, [i \in 1..Len(rules) |-> rules[i].enabled])
RECURSIVE SortRules(_, _)
\* left: the indices of enabled not yet placed
SortRules(enabled, left) ==
  IF left = {} THEN <<>>
  ELSE LET first == CHOOSE i \in left :
                      \A j \in left :
                        \/ enabled[i].priority > enabled[j].priority
                        \/ (enabled[i].priority = enabled[j].priority /\ i <= j)
       IN <<enabled[first]>> \o SortRules(enabled, left \ {first})
load_rules(policy) ==
  LET enabled == EnabledRules(policy.rules) IN SortRules(enabled, 1..Len(enabled))

\* the eval_context dict that evaluate builds
EvalContext(intent, context, evidence) ==
  [evidence |-> [facts |-> evidence.facts, rag |-> evidence.rag,
                 topic |-> evidence.topic, metadata |-> evidence.metadata],
   intent |-> [name |-> StrV(Join(intent.name)),
               confidence |-> FloatV(intent.confidence),
               parameters |-> [k \in DOMAIN intent.parameters |->
                                 StrV(Join(intent.parameters[k]))]],
   context |-> [user_id |-> context.user_id, channel |-> context.channel,
                session_id |-> NoneV]]

\* isinstance(current, dict), for what a lookup can meet: a dict of the view
\* or a Python value
IsDict(current) == "t" \notin DOMAIN current
\* hasattr(current, part) and getattr(current, part) of a value that is not a
\* dict, for the attribute names of the model: every object has __class__,
\* a number has real, a string has upper
HasAttr(current, part) ==
  \/ part = "__class__"
  \/ part = "real" /\ IsNumber(current)
  \/ part = "upper" /\ current.t = "str"
GetAttr(current, part) ==
  CASE part = "__class__" -> ObjectV("<class>")
    [] part = "real" -> (IF current.t = "bool" THEN IntV(current.n) ELSE current)
    [] OTHER -> ObjectV("<built-in method>")

RECURSIVE Walk(_, _)
\* the loop of _get_value over the parts of the path
Walk(current, parts) ==
  IF Len(parts) = 0 THEN current
  ELSE IF IsDict(current)
    THEN IF Head(parts) \notin DOMAIN current THEN NoneV
         ELSE Walk(current[Head(parts)], Tail(parts))
  ELSE IF HasAttr(current, Head(parts))
    THEN Walk(GetAttr(current, Head(parts)), Tail(parts))
  ELSE NoneV

\* PolicyEvaluator._get_value on the view {intent, context, evidence} that
\* evaluate builds; path is the dotted path split at the dots
get_value(path, intent, context, evidence) ==
  LET found == Walk(EvalContext(intent, context, evidence), path)
  IN IF IsDict(found) THEN DictV(found) ELSE found

\* a Python bool as a result
PyBool(b) == IF b THEN "True" ELSE "False"
\* "value < expected" and the like between a number value and any expected:
\* TypeError unless expected is a number too
Compare(operator, value, expected) ==
  IF ~IsNumber(expected) THEN "TypeError"
  ELSE CASE operator = "gt" -> PyBool(Hundredths(value) > Hundredths(expected))
         [] operator = "gte" -> PyBool(Hundredths(value) >= Hundredths(expected))
         [] operator = "lt" -> PyBool(Hundredths(value) < Hundredths(expected))
         [] OTHER -> PyBool(Hundredths(value) <= Hundredths(expected))
\* the "contains" branch of _apply_operator
OperatorContains(value, expected) ==
  IF value.t = "str" /\ expected.t = "str"
    THEN Contains(StrChunks(value.s), StrChunks(expected.s))
  ELSE IF value.t = "list" /\ expected.t \in {"str", "bool", "int", "float"}
    THEN PyIn(expected, value.items)
  ELSE FALSE

\* PolicyEvaluator._apply_operator(operator, value, expected): "True" or
\* "False" when it returns, the exception's name when it raises; expected is
\* an Operand or a ListOperand
apply_operator(operator, value, expected) ==
  LET e == OperandValue(expected)
  IN CASE operator = "equals" -> PyBool(PyEq(value, e))
       [] operator = "not_equals" -> PyBool(~PyEq(value, e))
       [] operator = "in" -> PyBool(e.t = "list" /\ PyIn(value, e.items))
       [] operator = "not_in" -> PyBool(e.t # "list" \/ ~PyIn(value, e.items))
       [] operator = "contains" -> PyBool(OperatorContains(value, e))
       [] operator = "not_contains" -> PyBool(~OperatorContains(value, e))
       [] operator = "any_of" ->
            IF value.t = "list" /\ e.t = "list"
              THEN PyBool(\E i \in 1..Len(value.items) : PyIn(value.items[i], e.items))
            ELSE PyBool(e.t = "list" /\ PyIn(value, e.items))
       [] operator = "all_of" ->
            IF value.t = "list" /\ e.t = "list"
              THEN PyBool(\A i \in 1..Len(value.items) : PyIn(value.items[i], e.items))
            ELSE PyBool(e.t = "list" /\ PyIn(value, e.items))
       [] operator \in {"gt", "gte", "lt", "lte"} ->
            IF ~IsNumber(value) THEN "False" ELSE Compare(operator, value, e)
       [] operator = "between" ->
            IF IsNumber(value) /\ e.t = "list" /\ Len(e.items) = 2
              THEN LET low == Compare("lte", e.items[1], value)
                   IN IF ~IsNumber(e.items[1]) THEN "TypeError"
                      ELSE IF low = "False" THEN "False"
                      ELSE Compare("lte", value, e.items[2])
            ELSE "False"
       [] operator = "is_true" -> PyBool(IsTrue(value))
       [] operator = "is_false" -> PyBool(IsFalse(value))
       [] operator = "is_null" -> PyBool(value.t = "none")
       [] operator = "is_not_null" -> PyBool(value.t # "none")
       [] operator = "matches" ->
            IF value.t = "str" /\ e.t = "str"
              THEN LET found == ReSearch(e.s, value.s)
                   IN IF found = "re.error" THEN "False" ELSE found
            ELSE "False"
       [] operator = "starts_with" ->
            PyBool(value.t = "str" /\ e.t = "str"
                     /\ StartsWith(StrChunks(value.s), StrChunks(e.s)))
       [] operator = "ends_with" ->
            PyBool(value.t = "str" /\ e.t = "str"
                     /\ EndsWith(StrChunks(value.s), StrChunks(e.s)))
       [] OTHER -> "False"

\* PolicyEvaluator._matches_condition, for one (path, operator, expected) entry
matches_condition(c, intent, context, evidence) ==
  apply_operator(c.operator, get_value(c.path, intent, context, evidence), c.expected)

RECURSIVE MatchesFrom(_, _, _, _)
\* the loops of _matches_rule and _matches_condition over the entries left:
\* the first entry that is not true ends them
MatchesFrom(conditions, intent, context, evidence) ==
  IF Len(conditions) = 0 THEN "True"
  ELSE LET first == matches_condition(Head(conditions), intent, context, evidence)
       IN IF first # "True" THEN first
          ELSE MatchesFrom(Tail(conditions), intent, context, evidence)
\* PolicyEvaluator._matches_rule: "True", "False" or the exception's name
matches_rule(rule, intent, context, evidence) ==
  MatchesFrom(rule.conditions, intent, context, evidence)

RECURSIVE EvaluateFrom(_, _, _, _)
\* the loop of evaluate over the rules left
EvaluateFrom(rules, intent, context, evidence) ==
  IF Len(rules) = 0
    THEN [action |-> None, raised |-> "",
          reason |-> Words(<<"No", "policy", "rules", "matched">>)]
  ELSE LET rule == Head(rules)
           hit == matches_rule(rule, intent, context, evidence)
       IN IF hit = "True" THEN [action |-> rule.action, raised |-> "", reason |-> rule.reason]
          ELSE IF hit = "False" THEN EvaluateFrom(Tail(rules), intent, context, evidence)
          ELSE [action |-> None, raised |-> hit, reason |-> <<>>]
\* PolicyEvaluator.evaluate: the first matching rule's action and reason, or
\* the exception a condition raised on the way
PolicyEvaluate(policy, intent, context, evidence) ==
  EvaluateFrom(load_rules(policy), intent, context, evidence)


\* ------------------------------------------------------------------------
\* core/pipeline.py: Gate, and the gates a pipeline can hold
\* ------------------------------------------------------------------------
\* A gate object: its class (kind), its name and its instance fields f
GateObject(kind, name, f) == [name |-> name, f |-> f, kind |-> kind]

\* A Gate subclass from outside the package, as the Gate contract allows: it
\* returns the (action, rationale) pair it was built with, under the name
\* "custom", and inherits the empty snapshot and summary.
CustomGate(action, rationale) ==
  GateObject("custom", "custom", [action |-> action, rationale |-> rationale])

\* gate.evaluate(intent, context, evidence, policy), by the gate's class
GateEvaluate(g, intent, evidence, policy, hash_seed) ==
  CASE g.kind = "safety" -> SafetyEvaluate(g.f, intent, evidence, policy, hash_seed)
    [] g.kind = "uncertainty" -> UncertaintyEvaluate(g.f, intent, evidence, policy)
    [] g.kind = "fact_verifiability" -> FactEvaluate(g.f, intent, evidence, policy)
    [] g.kind = "responsibility" -> ResponsibilityEvaluate(g.f, intent, evidence, policy)
    [] OTHER -> Returns(g.f, g.f.action, g.f.rationale)

\* gate.get_config_snapshot(); Gate's own returns {}
GateSnapshot(g) ==
  CASE g.kind = "safety" -> SafetySnapshot(g.f)
    [] g.kind = "uncertainty" -> UncertaintySnapshot(g.f)
    [] g.kind = "fact_verifiability" -> FactSnapshot(g.f)
    [] g.kind = "responsibility" -> ResponsibilitySnapshot(g.f)
    [] OTHER -> EmptyDict

\* gate.get_input_summary(evidence); Gate's own returns {}
GateSummary(g, evidence) ==
  CASE g.kind = "safety" -> SafetySummary(evidence)
    [] g.kind = "uncertainty" -> UncertaintySummary(evidence)
    [] g.kind = "fact_verifiability" -> FactSummary(evidence)
    [] g.kind = "responsibility" -> ResponsibilitySummary(evidence)
    [] OTHER -> EmptyDict

\* "x if x else None" of a dict
OrNone(d) == IF DOMAIN d = {} THEN NoneV ELSE d

\* ------------------------------------------------------------------------
\* core/decision.py
\* ------------------------------------------------------------------------
\* a generator that returns one id over and over
generate_trace_id_fixed(issued) == 1

\* generate_trace_id: uuid4, a value no earlier call of the process returned;
\* issued is the number of ids generated so far
generate_trace_id(issued) == issued + 1

GatePrefix(primary_gate) ==
  CASE primary_gate = "fact_verifiability" -> "FACTS"
    [] primary_gate = "uncertainty" -> "UNCERTAINTY"
    [] primary_gate = "responsibility" -> "RESPONSIBILITY"
    [] primary_gate = "safety" -> "SAFETY"
    [] OTHER -> "GOVERNANCE"

\* generate_decision_code(action, primary_gate, reason_type)
generate_decision_code(action, primary_gate, reason_type) ==
  <<GatePrefix(primary_gate), "_", action, "_">> \o ReplaceSpaces(Upper(reason_type))

GateDecision(gate_name, suggested_action, rationale, config_used, input_summary) ==
  [gate_name |-> gate_name, rationale |-> rationale, suggested_action |-> suggested_action,
   config_used |-> config_used, input_summary |-> input_summary]

\* a list of entries that takes a second entry for a key it holds
OrderedSet_append(d, key, value) == Append(d, [key |-> key, value |-> value])

\* d[key] = value on a dict that keeps insertion order: a sequence of
\* [key, value] entries; a key already there keeps its place
OrderedSet(d, key, value) ==
  IF \E i \in 1..Len(d) : d[i].key = key
  THEN [i \in 1..Len(d) |-> IF d[i].key = key THEN [key |-> key, value |-> value] ELSE d[i]]
  ELSE Append(d, [key |-> key, value |-> value])
Keys(d) == [i \in 1..Len(d) |-> d[i].key]
HasKey(d, key) == \E i \in 1..Len(d) : d[i].key = key
Lookup(d, key) == d[CHOOSE i \in 1..Len(d) : d[i].key = key].value

\* Decision(action, rationale, evidence_summary) with the dataclass defaults;
\* timestamp is the clock's reading at construction, and the model's clock
\* reads the number of the call, as the id generator does
NewDecision(action, rationale, evidence_summary, trace_id) ==
  [action |-> action, rationale |-> rationale, evidence_summary |-> evidence_summary,
   trace_id |-> trace_id, required_steps |-> <<>>, timestamp |-> trace_id,
   gate_contributions |-> <<>>, gate_decisions |-> <<>>,
   policy_version |-> "None", policy_name |-> "None", decision_code |-> <<>>,
   final_gate |-> None]

\* Decision.add_gate_decision
add_gate_decision(d, gate_name, suggested_action, rationale, config_used, input_summary) ==
  [d EXCEPT
     !.gate_decisions =
       OrderedSet(@, gate_name,
         GateDecision(gate_name, suggested_action, rationale, config_used, input_summary)),
     !.gate_contributions = OrderedSet(@, gate_name, rationale)]

\* Decision.override
override(d, new_action, gate_name, rationale, config_used, input_summary) ==
  [add_gate_decision([d EXCEPT !.action = new_action], gate_name, new_action, rationale,
                     config_used, input_summary)
     EXCEPT !.rationale = rationale]

\* Decision.set_policy_info
set_policy_info(d, policy_name, policy_version) ==
  [d EXCEPT !.policy_name = policy_name, !.policy_version = policy_version]

\* GateDecision.to_dict
GateDecision_to_dict(gd) ==
  [gate_name |-> gd.gate_name, rationale |-> gd.rationale,
   suggested_action |-> gd.suggested_action, config_used |-> gd.config_used,
   input_summary |-> gd.input_summary]

\* Decision.to_dict: action becomes its value, a str; gate_decisions becomes
\* a dict of dicts, in the order of the entries
to_dict(d) ==
  [action |-> StrV(d.action), rationale |-> d.rationale,
   evidence_summary |-> d.evidence_summary, trace_id |-> d.trace_id,
   required_steps |-> d.required_steps, timestamp |-> d.timestamp,
   gate_contributions |-> d.gate_contributions,
   gate_decisions |->
     [i \in 1..Len(d.gate_decisions) |->
        [key |-> d.gate_decisions[i].key,
         value |-> GateDecision_to_dict(d.gate_decisions[i].value)]],
   policy_version |-> d.policy_version, policy_name |-> d.policy_name,
   decision_code |-> d.decision_code, final_gate |-> d.final_gate]

\* a reconstruction that leaves the enhanced fields at their defaults
from_dict_core_fields(data, fresh) ==
  [raised |-> "",
   returned |-> [NewDecision(data["action"].s, data["rationale"], data["evidence_summary"],
                             data["trace_id"])
                   EXCEPT !.gate_contributions = data["gate_contributions"]]]

\* Decision.from_dict(data): DecisionAction(data["action"]) raises ValueError
\* for a value that names no member, data["rationale"] raises KeyError for a
\* missing key, data.get gives the default for one; fresh is what
\* generate_trace_id() and the clock give in this call.  gate_decisions are
\* rebuilt entry by entry, under the keys of the dict.
from_dict(data, fresh) ==
  IF "action" \notin DOMAIN data THEN [raised |-> "KeyError", returned |-> NoneV]
  ELSE IF ~(data["action"].t = "str" /\ data["action"].s \in DecisionAction)
  THEN [raised |-> "ValueError", returned |-> NoneV]
  ELSE IF "rationale" \notin DOMAIN data THEN [raised |-> "KeyError", returned |-> NoneV]
  ELSE
    LET decision_ ==
          [action |-> data["action"].s,
           rationale |-> data["rationale"],
           evidence_summary |-> DictGet(data, "evidence_summary", EmptyDict),
           trace_id |-> DictGet(data, "trace_id", fresh),
           required_steps |-> DictGet(data, "required_steps", <<>>),
           timestamp |-> DictGet(data, "timestamp", fresh),
           gate_contributions |-> DictGet(data, "gate_contributions", <<>>),
           gate_decisions |-> <<>>,
           policy_version |-> DictGet(data, "policy_version", "None"),
           policy_name |-> DictGet(data, "policy_name", "None"),
           decision_code |-> DictGet(data, "decision_code", <<>>),
           final_gate |-> DictGet(data, "final_gate", None)]
        entries == DictGet(data, "gate_decisions", <<>>)
    IN IF \E i \in 1..Len(entries) :
            ~({"gate_name", "rationale"} \subseteq DOMAIN entries[i].value)
       THEN [raised |-> "KeyError", returned |-> NoneV]
       ELSE [raised |-> "",
             returned |->
               [decision_ EXCEPT !.gate_decisions =
                  [i \in 1..Len(entries) |->
                     [key |-> entries[i].key,
                      value |->
                        GateDecision(entries[i].value["gate_name"],
                                     DictGet(entries[i].value, "suggested_action", None),
                                     entries[i].value["rationale"],
                                     DictGet(entries[i].value, "config_used", NoneV),
                                     DictGet(entries[i].value, "input_summary", NoneV))]]]]

\* ------------------------------------------------------------------------
\* The inputs and the gates the model draws from
\* ------------------------------------------------------------------------
OrderStatusQuery == <<"order_status_query">>
Refund == <<"refund">>

FraudInput == <<"Bypass", SP, "the", SP, "free", SP, "credit", SP, "check">>
PipeIntents ==
  {Intent(OrderStatusQuery, 95, EmptyDict), Intent(Refund, 95, [user_input |-> FraudInput])}
PipeContexts == {Context(StrV("user_123"), StrV("web"))}
Unverifiable == [verifiable |-> BoolV(FALSE)]
Conflicts == [has_conflicts |-> BoolV(TRUE), conflict_count |-> IntV(2)]
PipeEvidence ==
  {Evidence(EmptyDict, EmptyDict, EmptyDict),
   Evidence(Unverifiable, Conflicts, EmptyDict),
   Evidence(EmptyDict, [kb_age_days |-> IntV(45)], [is_sensitive |-> BoolV(TRUE)]),
   Evidence(EmptyDict, [confidence |-> NoneV], EmptyDict)}

\* a policy with a rule that matches every input and asks for STOP, and
\* overrides for two gates
StrictPolicy ==
  Policy("strict", "1.0",
    << Rule("low_confidence", <<[path |-> <<"intent", "confidence">>, expected |-> Operand(FloatV(50)),
                                 operator |-> "lt"]>>,
            RESTRICT, Words(<<"Low", "intent", "confidence">>), TRUE, 5),
       Rule("stop_all", <<>>, STOP, Words(<<"Stopped", "by", "policy">>), TRUE, 1) >>,
    [uncertainty |-> [stop_on_conflict |-> TRUE],
     fact_verifiability |-> [stop_on_unverifiable |-> TRUE],
     responsibility |-> [stop_on_sensitive |-> TRUE],
     safety |-> [additional_fraud_keywords |-> {<<"gift", SP, "card">>},
                 stop_on_sensitive_stop |-> TRUE]])
\* a policy without rules that overrides one threshold only
LenientPolicy ==
  Policy("lenient", "1.1", <<>>,
    [uncertainty |-> [confidence_threshold |-> 90],
     fact_verifiability |-> [require_realtime_facts |-> {OrderStatusQuery},
                             verifiable_threshold |-> 50],
     responsibility |-> [sensitive_intents |-> {OrderStatusQuery}]])
PipePolicies == {NoPolicy, StrictPolicy}

GateChoices ==
  {GateObject("safety", "safety", SafetyGate({}, {}, FALSE)),
   GateObject("uncertainty", "uncertainty", UncertaintyGate(60, FALSE, 30)),
   GateObject("fact_verifiability", "fact_verifiability",
              FactVerifiabilityGate({}, 70, FALSE)),
   GateObject("responsibility", "responsibility", ResponsibilityGate({}, {}, {}, FALSE)),
   CustomGate(ALLOW, Words(<<"Custom", "check">>)),
   CustomGate(STOP, <<>>),
   CustomGate(ESCALATE, <<SP, SP>>)}

\* ------------------------------------------------------------------------
\* core/pipeline.py: GovernancePipeline
\* ------------------------------------------------------------------------
VARIABLES
  gates,                \* self.gates: the gate objects, in configured order
  built,                \* the same gate objects as their constructors left them
  default_action,       \* self.default_action
  hash_seed,            \* the process's set iteration order (see KeywordOrder)
  issued,               \* the number of evaluate calls made, each drawing one trace id
  status,               \* of evaluate: "idle", "running", "returned", "raised"
  exception,            \* what the call raised, "" when it did not
  intent, context, evidence, policy,   \* the arguments of the call
  decision,             \* the Decision of the call
  winning_gate, primary_gate, primary_reason_type,   \* evaluate's locals
  idx,                  \* the position of the gate the loop evaluates next
  trail,                \* what each gate of this call returned, in order
  repeated,             \* this call repeats the previous call's arguments
  prev,                 \* then: the Decision the previous call returned
  file,                 \* what the file at a PolicyLoader's policy_path holds
  loaded,               \* the PolicyLoader's self._policy
  restored,             \* what Decision.from_dict(decision.to_dict()) gave the caller
  threads,              \* the locals of each of two threads inside evaluate at once
  http,                 \* a client's exchange with the service's POST /decision
  graph                 \* the LangGraph workflow: its AgentState and the node it is at

vars == <<gates, built, default_action, hash_seed, issued, status, exception, intent, context,
          evidence, policy, decision, winning_gate, primary_gate, primary_reason_type, idx,
          trail, repeated, prev, file, loaded, restored, threads,
          http, graph>>

NoDecision == NewDecision(ALLOW, <<>>, EmptyDict, 0)
NoIntent == Intent(<<>>, 0, EmptyDict)
NoEvidence == Evidence(EmptyDict, EmptyDict, EmptyDict)
NoContext == Context(NoneV, NoneV)
\* no file at the path
NoFile == [t |-> "absent", n |-> 0, s |-> ""]
\* the caller has not serialized the Decision
NoRestored == [raised |-> "", returned |-> NoneV]
\* no thread is inside evaluate
NoThreads == <<>>
\* no client talks to the service
NoHttp == <<>>
\* no workflow runs
NoGraph == <<>>

\* GovernancePipeline.__init__(gates=[], default_action)
Init ==
  /\ gates = <<>>
  /\ built = <<>>
  /\ default_action \in DecisionAction
  /\ hash_seed \in {0, 1}
  /\ issued = 0
  /\ status = "idle"
  /\ exception = ""
  /\ intent = NoIntent
  /\ context = NoContext
  /\ evidence = NoEvidence
  /\ policy = NoPolicy
  /\ decision = NoDecision
  /\ winning_gate = None
  /\ primary_gate = None
  /\ primary_reason_type = <<"default">>
  /\ idx = 1
  /\ trail = <<>>
  /\ repeated = FALSE
  /\ prev = NoDecision
  /\ file = NoFile
  /\ loaded = NoneV
  /\ restored = NoRestored
  /\ threads = NoThreads
  /\ http = NoHttp
  /\ graph = NoGraph

\* The pipeline is configured before it is used: add_gate and remove_gate are
\* called before the first evaluate.
Unused == issued = 0

\* GovernancePipeline.add_gate(gate)
AddGate(g) ==
  /\ Unused
  /\ Len(gates) < MaxGates
  /\ gates' = Append(gates, g)
  /\ built' = Append(built, g)
  /\ UNCHANGED <<graph, http, threads, restored, file, loaded, default_action, hash_seed, issued, status, exception, intent, context,
                 evidence, policy, decision, winning_gate, primary_gate,
                 primary_reason_type, idx, trail, repeated, prev>>

RECURSIVE WithoutName(_, _)
WithoutName(gs, gate_name) ==
  IF Len(gs) = 0 THEN <<>>
  ELSE (IF Head(gs).name # gate_name THEN <<Head(gs)>> ELSE <<>>)
         \o WithoutName(Tail(gs), gate_name)

\* GovernancePipeline.remove_gate(gate_name)
RemoveGate(gate_name) ==
  /\ Unused
  /\ gates' = WithoutName(gates, gate_name)
  /\ built' = WithoutName(built, gate_name)
  /\ UNCHANGED <<graph, http, threads, restored, file, loaded, default_action, hash_seed, issued, status, exception, intent, context,
                 evidence, policy, decision, winning_gate, primary_gate,
                 primary_reason_type, idx, trail, repeated, prev>>

\* a Decision whose evidence summary keeps the whole intent, parameters included
StartDecision_whole_intent(in, ctx, ev, pol, trace_id) ==
  LET d == NewDecision(default_action, Words(<<"No", "gates", "triggered">>),
                       [intent |-> in,
                        context |-> [user_id |-> ctx.user_id, channel |-> ctx.channel],
                        evidence_keys |-> DOMAIN ev.metadata],
                       trace_id)
  IN IF pol.given THEN set_policy_info(d, pol.name, pol.version) ELSE d

\* evaluate, lines 126-152: the Decision the call starts from
StartDecision(in, ctx, ev, pol, trace_id) ==
  LET d == NewDecision(default_action, Words(<<"No", "gates", "triggered">>),
                       [intent |-> in.name,
                        context |-> [user_id |-> ctx.user_id, channel |-> ctx.channel],
                        evidence_keys |-> DOMAIN ev.metadata],
                       trace_id)
  IN IF pol.given THEN set_policy_info(d, pol.name, pol.version) ELSE d

Start(in, ctx, ev, pol) ==
  /\ issued < MaxCalls
  /\ issued' = issued + 1
  /\ status' = "running"
  /\ exception' = ""
  /\ intent' = in
  /\ context' = ctx
  /\ evidence' = ev
  /\ policy' = pol
  /\ decision' = StartDecision(in, ctx, ev, pol, generate_trace_id(issued))
  /\ winning_gate' = None
  /\ primary_gate' = None
  /\ primary_reason_type' = <<"default">>
  /\ idx' = 1
  /\ trail' = <<>>
  /\ restored' = NoRestored
  /\ UNCHANGED <<graph, http, threads, file, loaded, gates, built, default_action, hash_seed>>

\* pipeline.evaluate(intent, context, evidence, policy) is called
Evaluate(in, ctx, ev, pol) ==
  /\ status = "idle"
  /\ Start(in, ctx, ev, pol)
  /\ repeated' = FALSE
  /\ prev' = NoDecision

\* pipeline.evaluate is called again with the arguments of the call that just
\* returned
EvaluateAgain ==
  /\ status = "returned"
  /\ Start(intent, context, evidence, policy)
  /\ repeated' = TRUE
  /\ prev' = decision

\* the user_input texts a caller sends in the place of another
RewordedInputs == {FraudInput, <<"free", SP, "credit", SP, "now">>, <<"hello">>}

\* pipeline.evaluate is called again with the arguments of the call that just
\* returned, but for the text of intent.parameters.user_input; prev keeps the
\* Decision of that call
EvaluateReworded(user_input) ==
  /\ status = "returned"
  /\ "user_input" \in DOMAIN intent.parameters
  /\ user_input # intent.parameters["user_input"]
  /\ Start([intent EXCEPT !.parameters = [@ EXCEPT !["user_input"] = user_input]],
           context, evidence, policy)
  /\ repeated' = FALSE
  /\ prev' = decision

\* evaluate, lines 171-173, on the action alone: the action in force after
\* the gates proposed proposals, in this order
RECURSIVE FinalAction(_, _)
FinalAction(action, proposals) ==
  IF Len(proposals) = 0 THEN action
  ELSE FinalAction(IF Head(proposals) # None /\ dominates(Head(proposals), action)
                   THEN Head(proposals) ELSE action,
                   Tail(proposals))

\* evaluate, lines 155-177: one turn of the loop over the gates; r is what
\* gate.evaluate did
GateTurn(gate, r) ==
  LET after == [gate EXCEPT !.f = r.f]
      config_used == GateSnapshot(after)
      input_summary == GateSummary(after, evidence)
      recorded == add_gate_decision(decision, gate.name, r.action, r.rationale,
                                    OrNone(config_used), OrNone(input_summary))
      wins == r.action # None /\ dominates(r.action, recorded.action)
      \* gate_rationale.split()[0] of a rationale that has no word
      no_word == wins /\ Len(r.rationale) > 0 /\ SplitCount(r.rationale) = 0
  IN /\ gates' = [gates EXCEPT ![idx] = after]
     /\ IF r.raised # "" \/ no_word
        THEN /\ status' = "raised"
             /\ exception' = IF r.raised # "" THEN r.raised ELSE "IndexError"
             /\ UNCHANGED <<graph, http, threads, restored, file, loaded, decision, winning_gate, primary_gate, primary_reason_type,
                            idx, trail>>
        ELSE /\ trail' = Append(trail, [gate_name |-> gate.name, action |-> r.action,
                                        rationale |-> r.rationale])
             /\ idx' = idx + 1
             /\ IF wins
                THEN /\ decision' = override(recorded, r.action, gate.name, r.rationale,
                                              config_used, input_summary)
                     /\ winning_gate' = gate.name
                     /\ primary_gate' = gate.name
                     /\ primary_reason_type' =
                          IF Len(r.rationale) > 0 THEN FirstWord(r.rationale)
                          ELSE <<"override">>
                ELSE /\ decision' = recorded
                     /\ UNCHANGED <<graph, http, threads, restored, file, loaded, winning_gate, primary_gate, primary_reason_type>>
             /\ UNCHANGED <<graph, http, threads, restored, file, loaded, status, exception>>

GateStep ==
  /\ status = "running"
  /\ idx <= Len(gates)
  /\ \E r \in {GateEvaluate(gates[idx], intent, evidence, policy, hash_seed)} :
       GateTurn(gates[idx], r)
  /\ UNCHANGED <<graph, http, threads, restored, file, loaded, built, default_action, hash_seed, issued, intent, context, evidence,
                 policy, repeated, prev>>

\* evaluate, lines 179-194: final_gate, the decision code, and the return
Finish ==
  /\ status = "running"
  /\ idx > Len(gates)
  /\ LET final_gate == IF decision.action # ALLOW THEN winning_gate ELSE None
         decision_code ==
           IF primary_gate \notin {None, ""}
           THEN generate_decision_code(decision.action, primary_gate, primary_reason_type)
           ELSE <<"GOVERNANCE", "_", decision.action, "_", "DEFAULT">>
     IN decision' = [decision EXCEPT !.final_gate = final_gate,
                                     !.decision_code = decision_code]
  /\ status' = "returned"
  /\ UNCHANGED <<graph, http, threads, restored, file, loaded, gates, built, default_action, hash_seed, issued, exception, intent, context,
                 evidence, policy, winning_gate, primary_gate, primary_reason_type, idx, trail,
                 repeated, prev>>

\* The caller takes the Decision (or the exception) of the call that ended.
Collect ==
  /\ status \in {"returned", "raised"}
  /\ status' = "idle"
  /\ exception' = ""
  /\ intent' = NoIntent
  /\ context' = NoContext
  /\ evidence' = NoEvidence
  /\ policy' = NoPolicy
  /\ decision' = NoDecision
  /\ winning_gate' = None
  /\ primary_gate' = None
  /\ primary_reason_type' = <<"default">>
  /\ idx' = 1
  /\ trail' = <<>>
  /\ repeated' = FALSE
  /\ prev' = NoDecision
  /\ restored' = NoRestored
  /\ UNCHANGED <<graph, http, threads, file, loaded, gates, built, default_action, hash_seed, issued>>

\* The caller serializes the Decision the call returned and reconstructs it:
\* Decision.from_dict(decision.to_dict())
RoundTrip ==
  /\ status = "returned"
  /\ restored = NoRestored
  /\ restored' = from_dict(to_dict(decision), generate_trace_id(issued))
  /\ UNCHANGED <<graph, http, threads, file, loaded, gates, built, default_action, hash_seed, issued, status,
                 exception, intent, context, evidence, policy, decision, winning_gate,
                 primary_gate, primary_reason_type, idx, trail, repeated, prev>>

Next ==
  \/ \E g \in GateChoices : AddGate(g)
  \/ \E n \in {gates[i].name : i \in 1..Len(gates)} : RemoveGate(n)
  \/ \E in \in PipeIntents, ctx \in PipeContexts, ev \in PipeEvidence, pol \in PipePolicies :
       Evaluate(in, ctx, ev, pol)
  \/ EvaluateAgain
  \/ \E user_input \in RewordedInputs : EvaluateReworded(user_input)
  \/ GateStep
  \/ Finish
  \/ RoundTrip
  \/ Collect

Spec == Init /\ [][Next]_vars

\* ------------------------------------------------------------------------
\* Properties of the pipeline
\* ------------------------------------------------------------------------
\* C1: the action evaluate returns is the most severe of the default action
\* and the gates' non-null proposals (ALLOW < RESTRICT < ESCALATE < STOP), and
\* the same proposals met in any other order give the same action.
C1_HighestSeverityWins ==
  status = "returned" =>
    LET sev == [a \in DecisionAction |->
                  CASE a = ALLOW -> 0 [] a = RESTRICT -> 1 [] a = ESCALATE -> 2 [] a = STOP -> 3]
        proposed == {trail[i].action : i \in 1..Len(trail)} \ {None}
        candidates == {default_action} \cup proposed
    IN /\ decision.action \in candidates
       /\ \A c \in candidates : sev[decision.action] >= sev[c]
       /\ \A p \in Permutations(1..Len(trail)) :
            FinalAction(default_action, [i \in 1..Len(trail) |-> trail[p[i]].action])
              = decision.action

\* a call returned after a gate proposed a severe action and a later gate a
\* milder one, both above the default
C1_Witness ==
  /\ status = "returned"
  /\ Len(trail) = 2
  /\ trail[1].action \in {ESCALATE, STOP}
  /\ trail[2].action = RESTRICT
  /\ default_action = ALLOW
  /\ decision.action = trail[1].action

\* C2: the returned Decision has final_gate null exactly when its action is
\* ALLOW, and otherwise final_gate names one of the pipeline's gates, whatever
\* the default action.
C2_FinalGateIffNotAllow ==
  status = "returned" =>
    /\ (decision.final_gate = None) <=> (decision.action = ALLOW)
    /\ decision.action # ALLOW =>
         \E i \in 1..Len(gates) : gates[i].name = decision.final_gate

\* C3: a gate whose proposal is not more severe than the action in force
\* leaves the action, the rationale and the winning gate as they are; when
\* gates proposed more than the default, final_gate and the rationale are
\* those of the earliest gate that proposed the most severe action.
C3_EarliestOfEqualSeverityWins ==
  /\ [](status = "returned" =>
          LET sev == [a \in DecisionAction \cup {None} |->
                        CASE a = None -> 0 [] a = ALLOW -> 0 [] a = RESTRICT -> 1
                          [] a = ESCALATE -> 2 [] a = STOP -> 3]
              top == {i \in 1..Len(trail) :
                        /\ sev[trail[i].action] > sev[default_action]
                        /\ \A j \in 1..Len(trail) :
                             sev[trail[j].action] <= sev[trail[i].action]}
          IN top # {} =>
               LET first == CHOOSE i \in top : \A j \in top : i <= j
               IN /\ decision.final_gate = trail[first].gate_name
                  /\ decision.rationale = trail[first].rationale)
  /\ [][(status = "running" /\ status' = "running" /\ idx' = idx + 1
           /\ LET sev == [a \in DecisionAction \cup {None} |->
                            CASE a = None -> 0 [] a = ALLOW -> 0 [] a = RESTRICT -> 1
                              [] a = ESCALATE -> 2 [] a = STOP -> 3]
              IN sev[trail'[idx].action] <= sev[decision.action])
          => /\ decision'.action = decision.action
             /\ decision'.rationale = decision.rationale
             /\ winning_gate' = winning_gate]_vars

\* a call returned in which two gates of different names proposed the final
\* action and the first of them is the final gate
C3_Witness ==
  /\ status = "returned"
  /\ Len(trail) = 2
  /\ trail[1].action = decision.action
  /\ trail[2].action = decision.action
  /\ trail[1].gate_name # trail[2].gate_name
  /\ trail[1].rationale # trail[2].rationale
  /\ decision.final_gate = trail[1].gate_name

\* C4: over gates of distinct names, gate_decisions and gate_contributions
\* hold one entry per gate, in evaluation order, also for a gate that
\* proposed nothing; the entry carries what that gate proposed and its
\* rationale, whether or not it won.
C4_OneEntryPerGate ==
  (status = "returned"
     /\ \A i, j \in 1..Len(gates) : gates[i].name = gates[j].name => i = j) =>
    /\ Len(decision.gate_decisions) = Len(gates)
    /\ Len(decision.gate_contributions) = Len(gates)
    /\ \A i \in 1..Len(gates) :
         /\ decision.gate_decisions[i].key = gates[i].name
         /\ decision.gate_decisions[i].value.gate_name = gates[i].name
         /\ decision.gate_decisions[i].value.suggested_action = trail[i].action
         /\ decision.gate_decisions[i].value.rationale = trail[i].rationale
         /\ decision.gate_contributions[i].key = gates[i].name
         /\ decision.gate_contributions[i].value = trail[i].rationale

\* a call returned over two gates: the first won, the second proposed
\* nothing, or proposed an action that lost
C4_Witness ==
  /\ status = "returned"
  /\ Len(gates) = 2
  /\ gates[1].name # gates[2].name
  /\ decision.final_gate = gates[1].name
  /\ trail[2].action = None
  /\ Len(decision.gate_decisions) = 2

\* C5: a call in which no gate raises returns; its decision_code is
\* GOVERNANCE_<ACTION>_DEFAULT when no gate proposed more than the default, and
\* otherwise <PREFIX>_<ACTION>_<TOKEN> with the prefix of the final gate and the
\* upper-cased first word of the winning rationale (OVERRIDE for an empty
\* rationale), whatever the rationale, also one of white space only.
C5_DecisionCodeForEveryRationale ==
  /\ status = "raised" => exception # "IndexError"
  /\ status = "returned" =>
       LET sev == [a \in DecisionAction |->
                     CASE a = ALLOW -> 0 [] a = RESTRICT -> 1 [] a = ESCALATE -> 2
                       [] a = STOP -> 3]
           same == {i \in 1..Len(trail) : trail[i].action = decision.action}
       IN IF \A i \in 1..Len(trail) :
               trail[i].action = None \/ sev[trail[i].action] <= sev[default_action]
          THEN decision.decision_code = <<"GOVERNANCE", "_", decision.action, "_", "DEFAULT">>
          ELSE LET won == trail[CHOOSE i \in same : \A j \in same : i <= j]
                   prefix == CASE won.gate_name = "fact_verifiability" -> "FACTS"
                               [] won.gate_name = "uncertainty" -> "UNCERTAINTY"
                               [] won.gate_name = "responsibility" -> "RESPONSIBILITY"
                               [] won.gate_name = "safety" -> "SAFETY"
                               [] OTHER -> "GOVERNANCE"
                   token == IF Len(won.rationale) = 0 THEN <<"OVERRIDE">>
                            ELSE Upper(FirstWord(won.rationale))
               IN decision.decision_code = <<prefix, "_", decision.action, "_">> \o token

\* C6: a call that repeats the arguments of the call before it, on the same
\* pipeline, returns the same action, rationale, final_gate and decision_code
\* under another trace_id.
C6_RepeatedCallsAgree ==
  (repeated /\ status \in {"returned", "raised"}) =>
    /\ status = "returned"
    /\ decision.action = prev.action
    /\ decision.rationale = prev.rationale
    /\ decision.final_gate = prev.final_gate
    /\ decision.decision_code = prev.decision_code
    /\ decision.trace_id # prev.trace_id

\* a repeated call returned a decision that a gate made, under a policy that
\* overrides gate fields
C6_Witness ==
  /\ repeated
  /\ status = "returned"
  /\ policy.given
  /\ decision.final_gate # None
  /\ Len(trail) = 2

\* C7: when evaluate is given a policy whose first matching enabled rule has
\* action A, the returned action is at least as severe as A.
C7_MatchingRuleTakesPart ==
  (status = "returned" /\ policy.given) =>
    LET matched == PolicyEvaluate(policy, intent, context, evidence)
    IN matched.action # None => precedence(decision.action) >= precedence(matched.action)

\* ------------------------------------------------------------------------
\* One gate on its own: a caller builds a gate and calls its evaluate directly,
\* any number of times, with changing arguments and policies
\* ------------------------------------------------------------------------
PaymentDispute == <<"Payment", "_", "dispute">>
IllegalRequest == <<"illegal", "_", "request">>
LegalAdvice == <<"legal_advice">>
PolicyChange == <<"policy_change">>

UnitPolicies == {NoPolicy, StrictPolicy, LenientPolicy}
UnitGates ==
  UNION { {GateObject("safety", "safety", SafetyGate({}, {<<"lock", SP, "pick">>}, b)),
           GateObject("uncertainty", "uncertainty", UncertaintyGate(60, b, 30)),
           GateObject("fact_verifiability", "fact_verifiability",
                      FactVerifiabilityGate({Refund}, 70, b)),
           GateObject("responsibility", "responsibility", ResponsibilityGate({}, {}, {}, b))}
          : b \in BOOLEAN }

\* the dicts that bind some of the keys of choices, each to one of its values
RECURSIVE DictsOver(_, _)
DictsOver(choices, keys) ==
  IF keys = {} THEN {EmptyDict}
  ELSE LET key == CHOOSE k \in keys : TRUE
           rest == DictsOver(choices, keys \ {key})
       IN rest \cup {[k \in DOMAIN d \cup {key} |-> IF k = key THEN v ELSE d[k]] :
                       d \in rest, v \in choices[key]}
DictsOf(choices) == DictsOver(choices, DOMAIN choices)

SafetyUserInputs ==
  {<<"hello">>, FraudInput, <<"Fake", SP, "id">>, <<"sql", SP, "injection">>,
   <<"hack", SP, "into", SP, "fake", SP, "id">>, <<"fake", SP, "id", SP, "bypass">>,
   <<"gift", SP, "card">>, <<"lock", SP, "pick">>}
SafetyIntents ==
  {Intent(n, 95, ps) : n \in {OrderStatusQuery, PaymentDispute, IllegalRequest},
                       ps \in {EmptyDict} \cup {[user_input |-> u] : u \in SafetyUserInputs}}
SafetyEvidence ==
  {Evidence(EmptyDict, EmptyDict, topic) :
     topic \in DictsOf([harm_risk |-> {BoolV(TRUE), BoolV(FALSE), IntV(1), StrV("yes")},
                        is_sensitive |-> {BoolV(TRUE), StrV("yes")}])}

UncertaintyIntents == {Intent(OrderStatusQuery, 95, EmptyDict)}
UncertaintyEvidence ==
  {Evidence(EmptyDict, rag, EmptyDict) :
     rag \in DictsOf([confidence |-> {FloatV(50), FloatV(60), FloatV(80), NoneV, StrV("high")},
                      has_conflicts |-> {BoolV(TRUE)},
                      conflict_count |-> {IntV(2), StrV("two")},
                      kb_age_days |-> {IntV(30), IntV(45), StrV("old")},
                      tool_disagreement |-> {BoolV(TRUE)},
                      coverage |-> {FloatV(70), FloatV(80)}])}

FactIntents == {Intent(n, 95, EmptyDict) : n \in {OrderStatusQuery, Refund}}
FactEvidence ==
  {Evidence(facts, EmptyDict, EmptyDict) :
     facts \in DictsOf([verifiable |-> {BoolV(FALSE), NoneV},
                        verifiable_confidence |-> {FloatV(60), FloatV(70), NoneV, StrV("high")},
                        source |-> {StrV("database"), StrV("untrusted")},
                        freshness |-> {StrV("stale")},
                        requires_realtime |-> {BoolV(TRUE), BoolV(FALSE)}])}

ResponsibilityIntents ==
  {Intent(n, 95, ps) : n \in {OrderStatusQuery, Refund, PolicyChange, LegalAdvice},
                       ps \in {EmptyDict, [user_input |-> <<"Refund", SP, "please">>]}}
ResponsibilityEvidence ==
  {Evidence(EmptyDict, EmptyDict, topic) :
     topic \in DictsOf([is_sensitive |-> {BoolV(TRUE)},
                        has_financial_impact |-> {BoolV(TRUE)},
                        requires_authority |-> {BoolV(TRUE)},
                        is_irreversible |-> {BoolV(TRUE)}])}

\* one gate is built; nothing has been called
InitGate ==
  /\ gates \in {<<g>> : g \in UnitGates}
  /\ built = gates
  /\ default_action = ALLOW
  /\ hash_seed \in {0, 1}
  /\ issued = 0
  /\ status = "idle"
  /\ exception = ""
  /\ intent = NoIntent
  /\ context = NoContext
  /\ evidence = NoEvidence
  /\ policy = NoPolicy
  /\ decision = NoDecision
  /\ winning_gate = None
  /\ primary_gate = None
  /\ primary_reason_type = <<"default">>
  /\ idx = 1
  /\ trail = <<>>
  /\ repeated = FALSE
  /\ prev = NoDecision
  /\ file = NoFile
  /\ loaded = NoneV
  /\ restored = NoRestored
  /\ threads = NoThreads
  /\ http = NoHttp
  /\ graph = NoGraph

\* gate.evaluate(in, ctx, ev, pol) called directly on the gate: the override
\* stays in the instance, the result (or the exception) goes to the caller
UnitCall(in, ev, pol) ==
  /\ status = "idle"
  /\ issued < MaxCalls
  /\ \E r \in {GateEvaluate(gates[1], in, ev, pol, hash_seed)} :
       /\ gates' = <<[gates[1] EXCEPT !.f = r.f]>>
       /\ status' = IF r.raised # "" THEN "raised" ELSE "returned"
       /\ exception' = r.raised
       /\ trail' = IF r.raised # "" THEN <<>>
                   ELSE <<[gate_name |-> gates[1].name, action |-> r.action,
                           rationale |-> r.rationale]>>
  /\ issued' = issued + 1
  /\ intent' = in
  /\ context' = Context(StrV("user_123"), StrV("web"))
  /\ evidence' = ev
  /\ policy' = pol
  /\ UNCHANGED <<graph, http, threads, restored, file, loaded, built, default_action, hash_seed, decision, winning_gate, primary_gate,
                 primary_reason_type, idx, repeated, prev>>

SafetyCall ==
  /\ gates[1].kind = "safety"
  /\ \E in \in SafetyIntents, ev \in SafetyEvidence, pol \in UnitPolicies :
       UnitCall(in, ev, pol)
UncertaintyCall ==
  /\ gates[1].kind = "uncertainty"
  /\ \E in \in UncertaintyIntents, ev \in UncertaintyEvidence, pol \in UnitPolicies :
       UnitCall(in, ev, pol)
FactCall ==
  /\ gates[1].kind = "fact_verifiability"
  /\ \E in \in FactIntents, ev \in FactEvidence, pol \in UnitPolicies :
       UnitCall(in, ev, pol)
ResponsibilityCall ==
  /\ gates[1].kind = "responsibility"
  /\ \E in \in ResponsibilityIntents, ev \in ResponsibilityEvidence, pol \in UnitPolicies :
       UnitCall(in, ev, pol)

NextGate ==
  \/ SafetyCall
  \/ UncertaintyCall
  \/ FactCall
  \/ ResponsibilityCall
  \/ Collect

SpecGate == InitGate /\ [][NextGate]_vars

\* ------------------------------------------------------------------------
\* Properties of a gate on its own
\* ------------------------------------------------------------------------
\* C8: in every call of a fact-verifiability, uncertainty or responsibility
\* gate, a field whose key the policy's map for the gate lacks has the value
\* the constructor gave it, and a field whose key is there has the map's value.
C8_AbsentKeyMeansConstructorValue ==
  (status = "returned"
     /\ gates[1].kind \in {"fact_verifiability", "uncertainty", "responsibility"}) =>
    LET cfg == PolicyConfig(policy, gates[1].name)
    IN \A key \in DOMAIN built[1].f :
         gates[1].f[key] = IF key \in DOMAIN cfg THEN cfg[key] ELSE built[1].f[key]

\* C9: no gate's evaluate raises, whatever the Evidence holds.
C9_GatesNeverRaise == status # "raised"

\* C10: the safety gate proposes STOP or nothing.  It proposes STOP, naming a
\* matched keyword of that set, when the lower-cased user input contains a
\* fraud keyword, else an illegal-content keyword, else a security-attack
\* keyword; else STOP when topic.harm_risk is exactly true; else STOP when
\* stop_on_sensitive_stop is on and topic.is_sensitive is set; else nothing.
C10_SafetyStopsInOrder ==
  (status = "returned" /\ gates[1].kind = "safety") =>
    LET f == gates[1].f
        user_input == Lower(IF "user_input" \in DOMAIN intent.parameters
                            THEN intent.parameters.user_input ELSE <<>>)
        fraud == {k \in f.fraud_keywords : Contains(user_input, k)}
        illegal == {k \in f.illegal_keywords : Contains(user_input, k)}
        security == {k \in f.security_keywords : Contains(user_input, k)}
        harm_risk == IF "harm_risk" \in DOMAIN evidence.topic
                     THEN evidence.topic.harm_risk ELSE BoolV(FALSE)
        is_sensitive == IF "is_sensitive" \in DOMAIN evidence.topic
                        THEN evidence.topic.is_sensitive ELSE BoolV(FALSE)
        stops == trail[1].action = STOP
        names(ks) == \E k \in ks : Contains(trail[1].rationale, <<"'">> \o k \o <<"'">>)
    IN /\ trail[1].action \in {STOP, None}
       /\ IF fraud # {} THEN stops /\ names(fraud)
          ELSE IF illegal # {} THEN stops /\ names(illegal)
          ELSE IF security # {} THEN stops /\ names(security)
          ELSE IF harm_risk = BoolV(TRUE) THEN stops
          ELSE IF f.stop_on_sensitive_stop /\ Truthy(is_sensitive) THEN stops
          ELSE trail[1].action = None

\* the safety gate returned STOP for an input that holds an illegal-content
\* keyword before a fraud keyword
C10_Witness ==
  /\ status = "returned"
  /\ gates[1].kind = "safety"
  /\ "user_input" \in DOMAIN intent.parameters
  /\ intent.parameters.user_input = <<"fake", SP, "id", SP, "bypass">>
  /\ trail[1].action = STOP
  /\ Contains(trail[1].rationale, <<"'", "bypass", "'">>)

C12_UncertaintyRuleOrder ==
  (status = "returned" /\ gates[1].kind = "uncertainty") =>
    LET f == gates[1].f
        rag == evidence.rag
        num(k, default) == IF k \in DOMAIN rag
                           THEN (IF rag[k].t = "float" THEN rag[k].n ELSE rag[k].n * 100)
                           ELSE default
        set(k) == k \in DOMAIN rag /\ Truthy(rag[k])
        expected ==
          IF num("confidence", 100) < f.confidence_threshold THEN RESTRICT
          ELSE IF set("has_conflicts") \/ num("conflict_count", 0) > 0
            THEN (IF f.stop_on_conflict THEN STOP ELSE RESTRICT)
          ELSE IF num("kb_age_days", 0) > f.outdated_version_days * 100 THEN RESTRICT
          ELSE IF set("tool_disagreement") THEN ESCALATE
          ELSE IF num("coverage", 100) < num("coverage_threshold", 80) THEN RESTRICT
          ELSE None
    IN trail[1].action = expected

\* the gate returned RESTRICT for low confidence although the tools disagree
\* and conflicts are flagged under stop_on_conflict
C12_Witness ==
  /\ status = "returned"
  /\ gates[1].kind = "uncertainty"
  /\ gates[1].f.stop_on_conflict
  /\ "confidence" \in DOMAIN evidence.rag
  /\ evidence.rag.confidence = FloatV(50)
  /\ "has_conflicts" \in DOMAIN evidence.rag
  /\ "tool_disagreement" \in DOMAIN evidence.rag
  /\ trail[1].action = RESTRICT

\* C13: the responsibility gate returns the outcome of the first rule that
\* matches, in the order: financial intent or topic.has_financial_impact
\* (ESCALATE); authority intent or topic.requires_authority (ESCALATE);
\* topic.is_irreversible (ESCALATE); sensitive intent or topic.is_sensitive
\* (STOP with stop_on_sensitive, else ESCALATE); a compensation keyword in the
\* lower-cased user input (ESCALATE); else nothing.  The rationale names the
\* rule.  topic.has_financial_impact = true always gives ESCALATE.
C13_ResponsibilityRuleOrder ==
  (status = "returned" /\ gates[1].kind = "responsibility") =>
    LET f == gates[1].f
        flag(k) == k \in DOMAIN evidence.topic /\ Truthy(evidence.topic[k])
        user_input == Lower(IF "user_input" \in DOMAIN intent.parameters
                            THEN intent.parameters.user_input ELSE <<>>)
        keyword == \E k \in {"compensat", "refund", "credit", "discount", "reimburse"} :
                     Contains(user_input, <<k>>)
        says(word) == Contains(trail[1].rationale, <<word>>)
        escalates(word) == trail[1].action = ESCALATE /\ says(word)
    IN /\ IF intent.name \in f.financial_intents \/ flag("has_financial_impact")
            THEN escalates("financial")
          ELSE IF intent.name \in f.authority_intents \/ flag("requires_authority")
            THEN escalates("authority")
          ELSE IF flag("is_irreversible") THEN escalates("irreversible")
          ELSE IF intent.name \in f.sensitive_intents \/ flag("is_sensitive")
            THEN /\ trail[1].action = (IF f.stop_on_sensitive THEN STOP ELSE ESCALATE)
                 /\ says("sensitive")
          ELSE IF keyword THEN escalates("compensation/financial")
          ELSE trail[1].action = None
       /\ flag("has_financial_impact") => trail[1].action = ESCALATE

\* the gate escalated for financial impact although the topic is sensitive
\* too and stop_on_sensitive is on
C13_Witness ==
  /\ status = "returned"
  /\ gates[1].kind = "responsibility"
  /\ gates[1].f.stop_on_sensitive
  /\ "has_financial_impact" \in DOMAIN evidence.topic
  /\ "is_sensitive" \in DOMAIN evidence.topic
  /\ intent.name = OrderStatusQuery
  /\ trail[1].action = ESCALATE

\* C14: the threshold comparisons are strict.  The uncertainty gate's
\* confidence rule fires exactly when rag.confidence is below
\* confidence_threshold; its age rule, reached when no earlier rule matched,
\* exactly when rag.kb_age_days is above outdated_version_days; its coverage
\* rule, reached likewise, exactly when rag.coverage is below the coverage
\* threshold; the fact gate's confidence rule, reached when the facts are not
\* flagged unverifiable, exactly when facts.verifiable_confidence is below
\* verifiable_threshold.  A value equal to its threshold fires no rule.
C14_StrictThresholds ==
  /\ (status = "returned" /\ gates[1].kind = "uncertainty") =>
       LET f == gates[1].f
           rag == evidence.rag
           num(k, default) == IF k \in DOMAIN rag
                              THEN (IF rag[k].t = "float" THEN rag[k].n ELSE rag[k].n * 100)
                              ELSE default
           starts(a, b) == trail[1].rationale[1] = a /\ trail[1].rationale[3] = b
           confidence_rule == starts("Retrieval", "confidence")
           conflict_rule == starts("Retrieval", "has")
           age_rule == starts("Knowledge", "base")
           tools_rule == starts("Multiple", "tools")
           coverage_rule == starts("Retrieval", "coverage")
       IN /\ confidence_rule <=> num("confidence", 100) < f.confidence_threshold
          /\ ~(confidence_rule \/ conflict_rule) =>
               (age_rule <=> num("kb_age_days", 0) > f.outdated_version_days * 100)
          /\ ~(confidence_rule \/ conflict_rule \/ age_rule \/ tools_rule) =>
               (coverage_rule <=> num("coverage", 100) < num("coverage_threshold", 80))
          /\ (confidence_rule \/ age_rule \/ coverage_rule) => trail[1].action = RESTRICT
  /\ (status = "returned" /\ gates[1].kind = "fact_verifiability") =>
       LET f == gates[1].f
           facts == evidence.facts
           confidence == IF "verifiable_confidence" \in DOMAIN facts
                         THEN (IF facts.verifiable_confidence.t = "float"
                               THEN facts.verifiable_confidence.n
                               ELSE facts.verifiable_confidence.n * 100)
                         ELSE 100
           unverifiable == "verifiable" \in DOMAIN facts /\ facts.verifiable = BoolV(FALSE)
           confidence_rule ==
             \/ Contains(trail[1].rationale, <<"high-confidence">>)
             \/ trail[1].rationale[1] = "Fact" /\ trail[1].rationale[3] = "verifiability"
       IN ~unverifiable => (confidence_rule <=> confidence < f.verifiable_threshold)

\* an uncertainty gate met confidence, age and coverage equal to their
\* thresholds and proposed nothing
C14_Witness ==
  /\ status = "returned"
  /\ gates[1].kind = "uncertainty"
  /\ DOMAIN evidence.rag = {"confidence", "kb_age_days", "coverage"}
  /\ evidence.rag.confidence = FloatV(gates[1].f.confidence_threshold)
  /\ evidence.rag.kb_age_days = IntV(gates[1].f.outdated_version_days)
  /\ evidence.rag.coverage = FloatV(80)
  /\ trail[1].action = None

\* ------------------------------------------------------------------------
\* A PolicyEvaluator on its own: a caller builds it on a policy and calls its
\* evaluate any number of times; the variable policy holds self.policy
\* ------------------------------------------------------------------------
Cond(path, operator, expected) == [path |-> path, expected |-> expected, operator |-> operator]

\* the rules of the model's policies, but for their enabled flag and priority
RuleShapes ==
  { [name |-> "always", action |-> ALLOW, conditions |-> <<>>],
    [name |-> "refund",
     action |-> ESCALATE,
     conditions |-> <<Cond(<<"intent", "name">>, "equals", Operand(StrV("refund")))>>],
    [name |-> "low_confidence",
     action |-> RESTRICT,
     conditions |-> <<Cond(<<"intent", "confidence">>, "gte", Operand(FloatV(30))),
                      Cond(<<"intent", "confidence">>, "lt", Operand(FloatV(50)))>>],
    [name |-> "unverified_refund",
     action |-> STOP,
     conditions |-> <<Cond(<<"intent", "name">>, "starts_with", Operand(StrV("re"))),
                      Cond(<<"evidence", "facts", "verifiable">>, "is_false",
                           Operand(BoolV(TRUE)))>>],
    [name |-> "no_rag_confidence",
     action |-> RESTRICT,
     conditions |-> <<Cond(<<"evidence", "rag", "confidence">>, "is_null",
                           Operand(BoolV(TRUE)))>>],
    [name |-> "real_part",
     action |-> ESCALATE,
     conditions |-> <<Cond(<<"intent", "confidence", "real">>, "gt", Operand(FloatV(50)))>>],
    [name |-> "high",
     action |-> STOP,
     conditions |-> <<Cond(<<"intent", "confidence">>, "gt", Operand(StrV("high")))>>] }
RulePool ==
  {Rule(r.name, r.conditions, r.action, Words(<<"Matched", r.name>>), enabled, priority) :
     r \in RuleShapes, enabled \in BOOLEAN, priority \in {0, 5}}

RECURSIVE RuleLists(_)
\* the lists of at most n rules of the pool
RuleLists(n) ==
  IF n = 0 THEN {<<>>}
  ELSE LET shorter == RuleLists(n - 1)
       IN shorter \cup {Append(rules, r) : rules \in {l \in shorter : Len(l) = n - 1},
                                           r \in RulePool}
EvaluatorPolicies == {Policy("rules", "1.0", rules, EmptyDict) : rules \in RuleLists(MaxRules)}

EvaluatorIntents == {Intent(Refund, 95, EmptyDict), Intent(OrderStatusQuery, 40, EmptyDict)}
EvaluatorEvidence ==
  {Evidence(EmptyDict, EmptyDict, EmptyDict),
   Evidence(Unverifiable, [confidence |-> FloatV(80)], EmptyDict)}

\* PolicyEvaluator(policy): nothing has been called
InitPolicy ==
  /\ policy \in EvaluatorPolicies
  /\ gates = <<>>
  /\ built = <<>>
  /\ default_action = ALLOW
  /\ hash_seed = 0
  /\ issued = 0
  /\ status = "idle"
  /\ exception = ""
  /\ intent = NoIntent
  /\ context = NoContext
  /\ evidence = NoEvidence
  /\ decision = NoDecision
  /\ winning_gate = None
  /\ primary_gate = None
  /\ primary_reason_type = <<"default">>
  /\ idx = 1
  /\ trail = <<>>
  /\ repeated = FALSE
  /\ prev = NoDecision
  /\ file = NoFile
  /\ loaded = NoneV
  /\ restored = NoRestored
  /\ threads = NoThreads
  /\ http = NoHttp
  /\ graph = NoGraph

\* evaluator.evaluate(in, ctx, ev): the pair it returns goes to trail, the
\* exception that leaves it to exception
EvaluatorCall(in, ctx, ev) ==
  /\ status = "idle"
  /\ issued < MaxCalls
  /\ \E r \in {PolicyEvaluate(policy, in, ctx, ev)} :
       /\ status' = IF r.raised # "" THEN "raised" ELSE "returned"
       /\ exception' = r.raised
       /\ trail' = IF r.raised # "" THEN <<>>
                   ELSE <<[action |-> r.action, reason |-> r.reason, call |-> "evaluate"]>>
  /\ issued' = issued + 1
  /\ intent' = in
  /\ context' = ctx
  /\ evidence' = ev
  /\ UNCHANGED <<graph, http, threads, restored, file, loaded, gates, built, default_action, hash_seed, policy, decision, winning_gate,
                 primary_gate, primary_reason_type, idx, repeated, prev>>

\* The caller takes what the call returned (or raised); the evaluator stays.
EvaluatorCollect ==
  /\ status \in {"returned", "raised"}
  /\ status' = "idle"
  /\ exception' = ""
  /\ intent' = NoIntent
  /\ context' = NoContext
  /\ evidence' = NoEvidence
  /\ trail' = <<>>
  /\ UNCHANGED <<graph, http, threads, restored, file, loaded, gates, built, default_action, hash_seed, issued, policy, decision,
                 winning_gate, primary_gate, primary_reason_type, idx, repeated, prev>>

NextPolicy ==
  \/ \E in \in EvaluatorIntents, ev \in EvaluatorEvidence :
       EvaluatorCall(in, Context(StrV("user_123"), StrV("web")), ev)
  \/ EvaluatorCollect

SpecPolicy == InitPolicy /\ [][NextPolicy]_vars

\* ------------------------------------------------------------------------
\* Properties of the policy evaluator
\* ------------------------------------------------------------------------
\* C15: evaluate considers only the rules whose enabled flag is not false, in
\* descending priority with ties in file order, and returns the action and the
\* reason of the first of them that matches; when none matches it returns no
\* action with the reason "No policy rules matched".
C15_FirstMatchingRuleByPriority ==
  (status = "returned" /\ Len(trail) = 1 /\ trail[1].call = "evaluate") =>
    LET rules == policy.rules
        candidates == {i \in 1..Len(rules) :
                         /\ rules[i].enabled
                         /\ matches_rule(rules[i], intent, context, evidence) = "True"}
        first == {i \in candidates :
                    \A j \in candidates :
                      \/ rules[i].priority > rules[j].priority
                      \/ (rules[i].priority = rules[j].priority /\ i <= j)}
    IN IF candidates = {}
         THEN /\ trail[1].action = None
              /\ trail[1].reason = Words(<<"No", "policy", "rules", "matched">>)
       ELSE \E i \in first :
              /\ trail[1].action = rules[i].action
              /\ trail[1].reason = rules[i].reason

\* a call where the second rule of the file has the higher priority and wins
\* over the first, both enabled and matching
C15_Witness ==
  /\ status = "returned"
  /\ Len(trail) = 1
  /\ trail[1].call = "evaluate"
  /\ Len(policy.rules) = 2
  /\ policy.rules[1].enabled
  /\ policy.rules[2].enabled
  /\ matches_rule(policy.rules[1], intent, context, evidence) = "True"
  /\ matches_rule(policy.rules[2], intent, context, evidence) = "True"
  /\ policy.rules[2].priority > policy.rules[1].priority
  /\ policy.rules[2].action # policy.rules[1].action
  /\ trail[1].action = policy.rules[2].action

RECURSIVE C16_ViewLookup(_, _)
\* the value at a path of the composite view as C16 reads it: the keys of the
\* nested maps lead to it, and a path the view does not hold reads as null
C16_ViewLookup(current, parts) ==
  IF Len(parts) = 0 THEN (IF IsDict(current) THEN DictV(current) ELSE current)
  ELSE IF IsDict(current) /\ Head(parts) \in DOMAIN current
    THEN C16_ViewLookup(current[Head(parts)], Tail(parts))
  ELSE NoneV

\* C16: a rule matches exactly when, for every field path of its conditions
\* map, every operator of that field's condition holds of the value at that
\* path of the view {intent, context, evidence}, a missing path reading as
\* null; a rule without conditions matches every input. Stated of the calls
\* that return on a policy of one enabled rule, where the rule matched exactly
\* when evaluate returned its action.
C16_RuleMatchesIffAllConditionsHold ==
  (/\ status = "returned"
   /\ Len(trail) = 1
   /\ trail[1].call = "evaluate"
   /\ Len(policy.rules) = 1
   /\ policy.rules[1].enabled) =>
    LET rule == policy.rules[1]
        view == EvalContext(intent, context, evidence)
        holds == \A i \in 1..Len(rule.conditions) :
                   apply_operator(rule.conditions[i].operator,
                                  C16_ViewLookup(view, rule.conditions[i].path),
                                  rule.conditions[i].expected) = "True"
    IN (trail[1].action # None) <=> holds

\* ------------------------------------------------------------------------
\* _apply_operator on its own: a caller applies one operator of an evaluator
\* to a value and an operand
\* ------------------------------------------------------------------------
\* policy/schema_validation.py: SUPPORTED_OPERATORS
SUPPORTED_OPERATORS ==
  {"equals", "not_equals", "in", "not_in", "contains", "not_contains", "any_of", "all_of",
   "gt", "gte", "lt", "lte", "between", "is_true", "is_false", "is_null", "is_not_null",
   "matches", "starts_with", "ends_with"}
OperatorNames == SUPPORTED_OPERATORS \cup {"resembles"}
OperatorValues ==
  {NoneV, BoolV(TRUE), IntV(5), FloatV(50), StrV("refund"), ListV(<<StrV("vip"), IntV(5)>>),
   DictV([verifiable |-> BoolV(FALSE)])}
OperatorOperands ==
  {Operand(NoneV), Operand(BoolV(TRUE)), Operand(IntV(3)), Operand(FloatV(50)),
   Operand(StrV("re")), Operand(StrV("(")), Operand(DictV(EmptyDict)),
   ListOperand(<<IntV(1), IntV(9)>>), ListOperand(<<StrV("vip"), IntV(5)>>),
   ListOperand(<<NoneV, IntV(9)>>), ListOperand(<<IntV(1), StrV("high")>>)}

\* PolicyEvaluator({"rules": []}): nothing has been called
InitOperator ==
  /\ policy = Policy("rules", "1.0", <<>>, EmptyDict)
  /\ gates = <<>>
  /\ built = <<>>
  /\ default_action = ALLOW
  /\ hash_seed = 0
  /\ issued = 0
  /\ status = "idle"
  /\ exception = ""
  /\ intent = NoIntent
  /\ context = NoContext
  /\ evidence = NoEvidence
  /\ decision = NoDecision
  /\ winning_gate = None
  /\ primary_gate = None
  /\ primary_reason_type = <<"default">>
  /\ idx = 1
  /\ trail = <<>>
  /\ repeated = FALSE
  /\ prev = NoDecision
  /\ file = NoFile
  /\ loaded = NoneV
  /\ restored = NoRestored
  /\ threads = NoThreads
  /\ http = NoHttp
  /\ graph = NoGraph

\* evaluator._apply_operator(operator, value, expected): what it was given and
\* what it returned go to trail, the exception that leaves it to exception
OperatorCall(operator, value, expected) ==
  /\ status = "idle"
  /\ issued < MaxCalls
  /\ \E r \in {apply_operator(operator, value, expected)} :
       /\ status' = IF r \in {"True", "False"} THEN "returned" ELSE "raised"
       /\ exception' = IF r \in {"True", "False"} THEN "" ELSE r
       /\ trail' = <<[expected |-> expected, value |-> value, operator |-> operator,
                      call |-> "_apply_operator",
                      result |-> IF r \in {"True", "False"} THEN r ELSE "None"]>>
  /\ issued' = issued + 1
  /\ UNCHANGED <<graph, http, threads, restored, file, loaded, gates, built, default_action, hash_seed, policy, intent, context, evidence,
                 decision, winning_gate, primary_gate, primary_reason_type, idx, repeated,
                 prev>>

NextOperator ==
  \/ \E operator \in OperatorNames, value \in OperatorValues, expected \in OperatorOperands :
       OperatorCall(operator, value, expected)
  \/ EvaluatorCollect

SpecOperator == InitOperator /\ [][NextOperator]_vars

\* C17: applying an operator is total: for every operator name, supported or
\* not, every value and every operand it returns a boolean and raises nothing,
\* and an unknown operator gives false.
C17_OperatorsAreTotal ==
  (Len(trail) = 1 /\ trail[1].call = "_apply_operator") =>
    /\ status = "returned"
    /\ trail[1].result \in {"True", "False"}
    /\ trail[1].operator \notin SUPPORTED_OPERATORS => trail[1].result = "False"

\* ------------------------------------------------------------------------
\* policy/schema_validation.py
\* ------------------------------------------------------------------------
SUPPORTED_ACTIONS == {"ALLOW", "RESTRICT", "ESCALATE", "STOP"}
REQUIRED_TOP_LEVEL_KEYS == <<"version", "name", "rules">>
REQUIRED_RULE_KEYS == <<"name", "conditions", "action">>

\* s.strip() of the strings of the model: white space alone strips to ""
Strip(s) == IF s \in {" ", "  "} THEN "" ELSE s

RECURSIVE KeysInOrder(_)
\* the keys of a dict in the order its items() gives them (one fixed order)
KeysInOrder(keys) ==
  IF keys = {} THEN <<>>
  ELSE LET key == CHOOSE k \in keys : TRUE IN <<key>> \o KeysInOrder(keys \ {key})

RECURSIVE MissingKeys(_, _, _)
\* "for key in required: if key not in d: errors.append(prefix + key)"
MissingKeys(required, present, prefix) ==
  IF Len(required) = 0 THEN <<>>
  ELSE (IF Head(required) \in present THEN <<>> ELSE <<prefix \o Head(required)>>)
         \o MissingKeys(Tail(required), present, prefix)

\* the errors _validate_conditions appends for one operator of a condition
\* (the tail of the first message, the sorted operator names, is left out)
OperatorErrors(operator, value, path) ==
  (IF operator \notin SUPPORTED_OPERATORS
     THEN <<path \o ": Unsupported operator '" \o operator \o "'">> ELSE <<>>)
  \o (IF operator \in {"gt", "gte", "lt", "lte", "between"}
        THEN IF IsNumber(value) THEN <<>>
             ELSE <<path \o ": Operator '" \o operator \o "' requires numeric value">>
      ELSE IF operator \in {"in", "not_in", "any_of", "all_of"}
        THEN IF value.t = "list" THEN <<>>
             ELSE <<path \o ": Operator '" \o operator \o "' requires list value">>
      ELSE IF operator \in {"is_true", "is_false", "is_null", "is_not_null"}
        THEN IF value.t = "bool" THEN <<>>
             ELSE <<path \o ": Operator '" \o operator \o "' value must be true or false">>
      ELSE <<>>)

RECURSIVE ConditionErrors(_, _, _)
\* the inner loop of _validate_conditions over the operators left
ConditionErrors(condition, operators, path) ==
  IF Len(operators) = 0 THEN <<>>
  ELSE OperatorErrors(Head(operators), condition[Head(operators)], path)
         \o ConditionErrors(condition, Tail(operators), path)

RECURSIVE ConditionsErrors(_, _, _)
\* the outer loop of _validate_conditions over the field paths left
ConditionsErrors(conditions, fields, path) ==
  IF Len(fields) = 0 THEN <<>>
  ELSE LET condition == conditions[Head(fields)]
           here == path \o "." \o Head(fields)
       IN (IF condition.t # "dict" THEN <<here \o ": Condition must be a dictionary">>
           ELSE ConditionErrors(condition.d, KeysInOrder(DOMAIN condition.d), here))
            \o ConditionsErrors(conditions, Tail(fields), path)

\* _validate_conditions(conditions, path)
validate_conditions(conditions, path) ==
  ConditionsErrors(conditions, KeysInOrder(DOMAIN conditions), path)

\* "key in rule" for a rule entry that is a dict, a string or a list; any
\* other entry is not iterable
KeyIn(key, rule) ==
  CASE rule.t = "dict" -> key \in DOMAIN rule.d
    [] rule.t = "str" -> Contains(StrChunks(rule.s), StrChunks(key))
    [] OTHER -> PyIn(StrV(key), rule.items)

\* _validate_rule(rule, path): the errors it returns, or the exception that
\* leaves it
validate_rule(rule, path) ==
  IF rule.t \notin {"dict", "str", "list"} THEN [raised |-> "TypeError", errors |-> <<>>]
  ELSE IF rule.t \in {"str", "list"}
    THEN IF \E key \in {"name", "conditions", "action", "enabled", "priority"} :
              KeyIn(key, rule)
           THEN [raised |-> "TypeError", errors |-> <<>>]
         ELSE [raised |-> "",
               errors |-> MissingKeys(REQUIRED_RULE_KEYS, {},
                                      path \o ": Missing required key ")]
  ELSE LET d == rule.d
           has(key) == key \in DOMAIN d
       IN IF has("action") /\ d["action"].t \in {"list", "dict"}
            THEN [raised |-> "TypeError", errors |-> <<>>]
          ELSE [raised |-> "",
                errors |->
                  MissingKeys(REQUIRED_RULE_KEYS, DOMAIN d, path \o ": Missing required key ")
                  \o (IF has("name") /\ (d["name"].t # "str" \/ Strip(d["name"].s) = "")
                        THEN <<path \o ": Rule name must be a non-empty string">> ELSE <<>>)
                  \o (IF has("action")
                           /\ ~(d["action"].t = "str" /\ d["action"].s \in SUPPORTED_ACTIONS)
                        THEN <<path \o ": Invalid action '" \o Str(d["action"]) \o "'">>
                      ELSE <<>>)
                  \o (IF ~has("conditions") THEN <<>>
                      ELSE IF d["conditions"].t # "dict"
                        THEN <<path \o ": Conditions must be a dictionary">>
                      ELSE validate_conditions(d["conditions"].d, path \o ".conditions"))
                  \o (IF has("enabled") /\ d["enabled"].t # "bool"
                        THEN <<path \o ": 'enabled' must be a boolean">> ELSE <<>>)
                  \o (IF has("priority")
                           /\ (d["priority"].t \notin {"int", "bool"} \/ d["priority"].n < 0)
                        THEN <<path \o ": 'priority' must be a non-negative integer">>
                      ELSE <<>>)]

RECURSIVE RulesErrors(_, _)
\* the loop of validate_policy_schema over the rule entries from position i
RulesErrors(rules, i) ==
  IF i > Len(rules) THEN [raised |-> "", errors |-> <<>>]
  ELSE LET first == validate_rule(rules[i], "rules[" \o ToString(i - 1) \o "]")
       IN IF first.raised # "" THEN first
          ELSE LET rest == RulesErrors(rules, i + 1)
               IN IF rest.raised # "" THEN rest
                  ELSE [raised |-> "", errors |-> first.errors \o rest.errors]

RECURSIVE GatesErrors(_, _)
\* the loop of validate_policy_schema over the gate configurations left
GatesErrors(gate_configs, names) ==
  IF Len(names) = 0 THEN <<>>
  ELSE (IF gate_configs[Head(names)].t = "dict" THEN <<>>
        ELSE <<"Gate config for '" \o Head(names) \o "' must be a dictionary">>)
         \o GatesErrors(gate_configs, Tail(names))

\* PolicyValidationError(message): its text, one chunk per piece
PolicyValidationError(count) ==
  <<"Policy validation failed with ", ToString(count), " error(s)">>

\* validate_policy_schema(policy) of a dict: the list errors it has built when
\* it ends, the exception that leaves it ("" when it returns []) and the
\* exception's message
validate_policy_schema(pol) ==
  LET has(key) == key \in DOMAIN pol
      rules == IF has("rules") /\ pol["rules"].t = "list"
                 THEN RulesErrors(pol["rules"].items, 1)
               ELSE [raised |-> "", errors |-> <<>>]
      errors ==
        MissingKeys(REQUIRED_TOP_LEVEL_KEYS, DOMAIN pol, "Missing required top-level key: ")
        \o (IF ~has("version") THEN <<>>
            ELSE IF pol["version"].t # "str" THEN <<"Policy version must be a string">>
            ELSE IF ~StartsWith(StrChunks(pol["version"].s), <<"1.">>)
              THEN <<"Unsupported policy version: " \o pol["version"].s
                       \o " (only 1.x supported)">>
            ELSE <<>>)
        \o (IF has("name") /\ (pol["name"].t # "str" \/ Strip(pol["name"].s) = "")
              THEN <<"Policy name must be a non-empty string">> ELSE <<>>)
        \o (IF has("rules") /\ pol["rules"].t # "list"
              THEN <<"Policy 'rules' must be a list">> ELSE rules.errors)
        \o (IF ~has("gates") THEN <<>>
            ELSE IF pol["gates"].t # "dict" THEN <<"Policy 'gates' must be a dictionary">>
            ELSE GatesErrors(pol["gates"].d, KeysInOrder(DOMAIN pol["gates"].d)))
  IN IF rules.raised # "" THEN [raised |-> rules.raised, errors |-> <<>>, message |-> <<>>]
     ELSE IF Len(errors) > 0
       THEN [raised |-> "PolicyValidationError", errors |-> errors,
             message |-> PolicyValidationError(Len(errors))]
     ELSE [raised |-> "", errors |-> <<>>, message |-> <<>>]

\* ------------------------------------------------------------------------
\* policy/loader.py: PolicyLoader
\* ------------------------------------------------------------------------
\* a file or a string that yaml.safe_load cannot parse
Unparsable == [t |-> "unparsable", n |-> 0, s |-> ""]
\* type(policy).__name__
TypeName(v) == IF v.t = "none" THEN "NoneType" ELSE v.t

\* what load and load_from_string do with the parsed document: the policy
\* they return, or the exception that leaves them and its message
LoadDocument(document, what) ==
  IF document.t # "dict"
    THEN [raised |-> "PolicyError", returned |-> NoneV,
          message |-> <<what \o " must contain a dictionary, got ", TypeName(document)>>]
  ELSE LET checked == validate_policy_schema(document.d)
       IN IF checked.raised = "PolicyValidationError"
            THEN [raised |-> "PolicyError", returned |-> NoneV,
                  message |-> <<"Policy validation failed: ">> \o checked.message]
          ELSE IF checked.raised # ""
            THEN [raised |-> checked.raised, returned |-> NoneV, message |-> <<>>]
          ELSE [raised |-> "", returned |-> document, message |-> <<>>]

\* PolicyLoader.load() with the file as it is now
load(content) ==
  IF content = NoFile
    THEN [raised |-> "PolicyError", returned |-> NoneV, message |-> <<"Policy file not found">>]
  ELSE IF content = Unparsable
    THEN [raised |-> "PolicyError", returned |-> NoneV,
          message |-> <<"Failed to parse YAML file">>]
  ELSE LoadDocument(content, "Policy file")

\* PolicyLoader.load_from_string(yaml_content)
load_from_string(yaml_content) ==
  IF yaml_content = Unparsable
    THEN [raised |-> "PolicyError", returned |-> NoneV,
          message |-> <<"Failed to parse YAML content">>]
  ELSE LoadDocument(yaml_content, "Policy")

\* ------------------------------------------------------------------------
\* A PolicyLoader on its own: a caller builds it on a path and calls load and
\* the policy property, the file may change in between; load_from_string and
\* validate_policy_schema are called directly
\* ------------------------------------------------------------------------
\* a key a document leaves out
Absent == [t |-> "absent", n |-> 0, s |-> ""]
\* the dict of the keys of fields that are not left out
DictOf(fields) == DictV([k \in {f \in DOMAIN fields : fields[f] # Absent} |-> fields[k]])

RuleEntry(name, conditions, action, enabled, priority) ==
  DictOf([name |-> name, action |-> action, conditions |-> conditions,
          enabled |-> enabled, priority |-> priority])
Document(version, name, rules, gate_configs) ==
  DictOf([name |-> name, version |-> version, rules |-> rules, gates |-> gate_configs])

LowConfidence == DictV("intent.confidence" :> DictV([lt |-> FloatV(50)]))
GoodEntry == RuleEntry(StrV("low_confidence"), LowConfidence, StrV("STOP"), Absent, Absent)
\* the entries of the rules list of the model's documents: two that keep the
\* schema, the others break it in one or more places or are no map at all
RuleEntries ==
  { GoodEntry,
    RuleEntry(StrV("always"), DictV(EmptyDict), StrV("ALLOW"), BoolV(FALSE), IntV(5)),
    RuleEntry(StrV("no_action"), LowConfidence, Absent, Absent, Absent),
    RuleEntry(StrV("block"), LowConfidence, StrV("BLOCK"), Absent, Absent),
    RuleEntry(StrV("actions"), LowConfidence, ListV(<<StrV("STOP")>>), Absent, Absent),
    RuleEntry(StrV("listed"), ListV(<<>>), StrV("STOP"), Absent, Absent),
    RuleEntry(StrV("flat"), DictV("intent.name" :> StrV("refund")), StrV("STOP"),
              Absent, Absent),
    RuleEntry(StrV("resembles"), DictV("intent.name" :> DictV([resembles |-> StrV("x")])),
              StrV("STOP"), Absent, Absent),
    RuleEntry(StrV("high"), DictV("intent.confidence" :> DictV([gt |-> StrV("high")])),
              StrV("STOP"), Absent, Absent),
    RuleEntry(StrV("operands"),
              DictV("intent.name" :> DictV([any_of |-> StrV("refund"),
                                            is_null |-> StrV("yes")])),
              StrV("STOP"), Absent, Absent),
    RuleEntry(StrV(" "), LowConfidence, StrV("STOP"), StrV("yes"), IntV(-1)),
    IntV(5), NoneV, StrV("stop_all"), StrV("a name"), ListV(<<>>), ListV(<<StrV("name")>>) }

RECURSIVE EntryLists(_)
\* the lists of at most n rule entries
EntryLists(n) ==
  IF n = 0 THEN {<<>>}
  ELSE LET shorter == EntryLists(n - 1)
       IN shorter \cup {Append(entries, e) : entries \in {l \in shorter : Len(l) = n - 1},
                                             e \in RuleEntries}

\* documents that vary the top level, and documents that vary the rules
TopDocuments ==
  {Document(version, name, rules, gate_configs) :
     version \in {Absent, StrV("1.0"), StrV("2.0"), IntV(1)},
     name \in {Absent, StrV("strict"), StrV(" ")},
     rules \in {Absent, StrV("none"), ListV(<<GoodEntry>>),
                ListV(<<RuleEntry(StrV("block"), LowConfidence, StrV("BLOCK"), Absent, Absent),
                        RuleEntry(StrV("resembles"),
                                  DictV("intent.name" :> DictV([resembles |-> StrV("x")])),
                                  StrV("STOP"), Absent, Absent)>>)},
     gate_configs \in {Absent, ListV(<<>>),
                       DictV([uncertainty |-> IntV(1), safety |-> DictV(EmptyDict)])}}
RuleDocuments ==
  {Document(StrV("1.0"), StrV("strict"), ListV(entries), Absent) :
     entries \in EntryLists(MaxRules)}
\* what a YAML text parses to: a map or not, or nothing (the text does not parse)
Documents ==
  TopDocuments \cup RuleDocuments \cup {ListV(<<>>), StrV("strict"), NoneV, Unparsable}
\* what the file at the loader's path holds at one time or another
FileContents ==
  {NoFile, Unparsable, NoneV, ListV(<<>>),
   Document(Absent, StrV("strict"), StrV("none"), Absent),
   Document(StrV("1.0"), StrV("strict"), ListV(<<GoodEntry>>),
            DictV([safety |-> DictV(EmptyDict)]))}
  \cup {Document(StrV("1.0"), StrV("strict"), ListV(<<e>>), Absent) : e \in RuleEntries}

\* PolicyLoader(policy_path): nothing has been loaded
InitLoader ==
  /\ file \in FileContents
  /\ loaded = NoneV
  /\ restored = NoRestored
  /\ threads = NoThreads
  /\ http = NoHttp
  /\ graph = NoGraph
  /\ policy = NoPolicy
  /\ gates = <<>>
  /\ built = <<>>
  /\ default_action = ALLOW
  /\ hash_seed = 0
  /\ issued = 0
  /\ status = "idle"
  /\ exception = ""
  /\ intent = NoIntent
  /\ context = NoContext
  /\ evidence = NoEvidence
  /\ decision = NoDecision
  /\ winning_gate = None
  /\ primary_gate = None
  /\ primary_reason_type = <<"default">>
  /\ idx = 1
  /\ trail = <<>>
  /\ repeated = FALSE
  /\ prev = NoDecision

\* a call of the loader or of the validator ends: r is what it returned or
\* raised, document what it was given
LoaderCallEnds(call, document, r) ==
  /\ issued' = issued + 1
  /\ status' = IF r.raised # "" THEN "raised" ELSE "returned"
  /\ exception' = r.raised
  /\ trail' = <<[returned |-> r.returned, call |-> call, errors |-> r.errors,
                 message |-> r.message, document |-> document]>>
  /\ UNCHANGED <<graph, http, threads, restored, file, gates, built, default_action, hash_seed, policy, intent, context,
                 evidence, decision, winning_gate, primary_gate, primary_reason_type, idx,
                 repeated, prev>>

\* loader.load()
LoaderLoad ==
  /\ status = "idle"
  /\ issued < MaxCalls
  /\ \E r \in {load(file)} :
       /\ LoaderCallEnds("load", file, r @@ [errors |-> <<>>])
       /\ loaded' = IF r.raised = "" THEN r.returned ELSE loaded

\* loader.policy: loads when nothing is loaded, and returns self._policy
LoaderPolicy ==
  /\ status = "idle"
  /\ issued < MaxCalls
  /\ \E r \in {IF loaded = NoneV THEN load(file)
               ELSE [raised |-> "", returned |-> loaded, message |-> <<>>]} :
       /\ LoaderCallEnds("policy", file, r @@ [errors |-> <<>>])
       /\ loaded' = IF r.raised = "" THEN r.returned ELSE loaded

\* PolicyLoader.load_from_string(yaml_content)
LoaderLoadFromString(yaml_content) ==
  /\ status = "idle"
  /\ issued < MaxCalls
  /\ \E r \in {load_from_string(yaml_content)} :
       LoaderCallEnds("load_from_string", yaml_content, r @@ [errors |-> <<>>])
  /\ UNCHANGED loaded

\* validate_policy_schema(document) of a map
ValidateCall(document) ==
  /\ status = "idle"
  /\ issued < MaxCalls
  /\ document.t = "dict"
  /\ \E r \in {validate_policy_schema(document.d)} :
       LoaderCallEnds("validate_policy_schema", document, r @@ [returned |-> NoneV])
  /\ UNCHANGED loaded

\* somebody rewrites, or removes, the file at the loader's path
WriteFile(content) ==
  /\ status = "idle"
  /\ file # content
  /\ file' = content
  /\ UNCHANGED <<graph, http, threads, restored, loaded, gates, built, default_action, hash_seed, issued, status, exception,
                 intent, context, evidence, policy, decision, winning_gate, primary_gate,
                 primary_reason_type, idx, trail, repeated, prev>>

NextLoader ==
  \/ LoaderLoad
  \/ LoaderPolicy
  \/ \E yaml_content \in Documents : LoaderLoadFromString(yaml_content)
  \/ \E document \in Documents : ValidateCall(document)
  \/ \E content \in FileContents : WriteFile(content)
  \/ EvaluatorCollect

SpecLoader == InitLoader /\ [][NextLoader]_vars

\* ------------------------------------------------------------------------
\* Properties of the schema validation and of the loader
\* ------------------------------------------------------------------------
\* C18: when validate_policy_schema finds k >= 1 violations in a policy, the
\* one validation failure it raises lists every one of the k messages it
\* collected in its pass over the policy.
C18_FailureListsEveryError ==
  (/\ Len(trail) = 1
   /\ trail[1].call = "validate_policy_schema"
   /\ exception = "PolicyValidationError") =>
    /\ Len(trail[1].errors) >= 1
    /\ \A i \in 1..Len(trail[1].errors) :
         Contains(trail[1].message, <<trail[1].errors[i]>>)

\* the schema as the documentation words it, of a parsed document
C19_SatisfiesSchema(document) ==
  /\ document.t = "dict"
  /\ {"version", "name", "rules"} \subseteq DOMAIN document.d
  /\ document.d["version"].t = "str"
  /\ StartsWith(StrChunks(document.d["version"].s), <<"1.">>)
  /\ document.d["name"].t = "str"
  /\ Strip(document.d["name"].s) # ""
  /\ document.d["rules"].t = "list"
  /\ \A i \in 1..Len(document.d["rules"].items) :
       LET rule == document.d["rules"].items[i]
       IN /\ rule.t = "dict"
          /\ {"name", "conditions", "action"} \subseteq DOMAIN rule.d
          /\ rule.d["action"].t = "str"
          /\ rule.d["action"].s \in SUPPORTED_ACTIONS
          /\ rule.d["conditions"].t = "dict"
          /\ \A field \in DOMAIN rule.d["conditions"].d :
               LET condition == rule.d["conditions"].d[field]
               IN /\ condition.t = "dict"
                  /\ DOMAIN condition.d \subseteq SUPPORTED_OPERATORS

\* C19: load and load_from_string either return a policy that satisfies the
\* whole schema or fail with PolicyError and with no other exception, whatever
\* the document is; after a failed load the loader holds no policy of that
\* attempt.
C19_LoadReturnsValidOrPolicyError ==
  (Len(trail) = 1 /\ trail[1].call \in {"load", "load_from_string"}) =>
    /\ status = "returned" => C19_SatisfiesSchema(trail[1].returned)
    /\ status = "raised" =>
         /\ exception = "PolicyError"
         /\ trail[1].call = "load" => (loaded = NoneV \/ loaded # trail[1].document)

\* ------------------------------------------------------------------------
\* Properties of the audit data
\* ------------------------------------------------------------------------
\* C20: the audit data of a Decision (its evidence_summary and the
\* input_summary of each gate decision) holds nothing of the text of
\* intent.parameters.user_input: the safety gate's summary is the fixed
\* placeholder and the two topic flags, and a call that differs from the call
\* before it in the user_input text alone, and in which every gate suggests
\* the action it suggested before, returns the same evidence_summary and, gate
\* by gate, the same input summaries.
C20_AuditDataWithoutUserInput ==
  /\ status = "returned" =>
       \A i \in 1..Len(decision.gate_decisions) :
         LET gd == decision.gate_decisions[i].value
         IN (\E j \in 1..Len(gates) : gates[j].name = gd.gate_name /\ gates[j].kind = "safety")
              => /\ gd.input_summary # NoneV
                 /\ DOMAIN gd.input_summary = {"user_input", "topic_flags"}
                 /\ gd.input_summary.user_input = StrV("<redacted_for_privacy>")
                 /\ DOMAIN gd.input_summary.topic_flags = {"harm_risk", "is_sensitive"}
  /\ (/\ status = "returned"
      /\ ~repeated
      /\ prev # NoDecision
      /\ Keys(decision.gate_decisions) = Keys(prev.gate_decisions)
      /\ \A i \in 1..Len(decision.gate_decisions) :
           decision.gate_decisions[i].value.suggested_action
             = prev.gate_decisions[i].value.suggested_action) =>
       /\ decision.evidence_summary = prev.evidence_summary
       /\ \A i \in 1..Len(decision.gate_decisions) :
            decision.gate_decisions[i].value.input_summary
              = prev.gate_decisions[i].value.input_summary

\* a call returned that differs from the call before it in the user_input text
\* alone; the safety gate stopped both, on the same rule, and a second gate
\* was heard too
C20_Witness ==
  /\ status = "returned"
  /\ ~repeated
  /\ prev # NoDecision
  /\ Len(gates) = 2
  /\ gates[1].kind = "safety"
  /\ Len(decision.gate_decisions) = 2
  /\ decision.action = STOP
  /\ prev.action = STOP
  /\ decision.final_gate = "safety"
  /\ prev.final_gate = "safety"
  /\ decision.decision_code = prev.decision_code
  /\ decision.rationale # prev.rationale

\* ------------------------------------------------------------------------
\* Properties of the recorded configuration
\* ------------------------------------------------------------------------
\* the fields a gate's rules read in a call: the fields the gate held when
\* the call reached it, with the override of the call's policy applied
C21_Applied(g, pol) ==
  CASE g.kind = "safety" -> SafetyOverride(g.f, pol)
    [] g.kind = "uncertainty" -> UncertaintyOverride(g.f, pol)
    [] g.kind = "fact_verifiability" -> FactOverride(g.f, pol)
    [] g.kind = "responsibility" -> ResponsibilityOverride(g.f, pol)
    [] OTHER -> g.f

\* C21: in every turn of evaluate's loop, the config_used recorded under the
\* gate's name shows the values the gate's rules ran on in that turn, that is
\* the gate's fields after the override of this call's policy: the thresholds,
\* intent sets and stop flags themselves, and for the safety gate the stop
\* flag and the sizes of its keyword sets; a gate without configuration
\* records none.
C21_ConfigUsedIsConfigApplied ==
  [][(status = "running" /\ idx <= Len(gates) /\ idx' = idx + 1) =>
       LET g == gates[idx]
           applied == C21_Applied(g, policy)
           config_used == Lookup(decision'.gate_decisions, g.name).config_used
       IN CASE g.kind = "safety" ->
                 /\ DOMAIN config_used = {"fraud_keywords_count", "illegal_keywords_count",
                                          "security_keywords_count", "stop_on_sensitive_stop"}
                 /\ config_used.stop_on_sensitive_stop = applied.stop_on_sensitive_stop
                 /\ config_used.fraud_keywords_count = Cardinality(applied.fraud_keywords)
                 /\ config_used.illegal_keywords_count = Cardinality(applied.illegal_keywords)
                 /\ config_used.security_keywords_count = Cardinality(applied.security_keywords)
                 /\ trail'[idx].action
                      = SafetyRules(applied, intent, evidence, hash_seed).action
            [] g.kind = "uncertainty" ->
                 /\ config_used = applied
                 /\ trail'[idx].action = UncertaintyRules(applied, intent, evidence).action
            [] g.kind = "fact_verifiability" ->
                 /\ config_used = applied
                 /\ trail'[idx].action = FactRules(applied, intent, evidence).action
            [] g.kind = "responsibility" ->
                 /\ config_used = applied
                 /\ trail'[idx].action = ResponsibilityRules(applied, intent, evidence).action
            [] OTHER -> config_used \in {NoneV, EmptyDict}]_vars

\* a call under a policy returned, and the recorded configuration of the
\* uncertainty gate shows the policy's stop_on_conflict where the gate was
\* built with another value
C21_Witness ==
  /\ status = "returned"
  /\ policy.given
  /\ \E i \in 1..Len(gates) :
       /\ gates[i].kind = "uncertainty"
       /\ built[i].f.stop_on_conflict = FALSE
       /\ HasKey(decision.gate_decisions, "uncertainty")
       /\ Lookup(decision.gate_decisions, "uncertainty").config_used.stop_on_conflict = TRUE
       /\ Lookup(decision.gate_decisions, "uncertainty").suggested_action = STOP

\* ------------------------------------------------------------------------
\* Properties of the Decision's external representation
\* ------------------------------------------------------------------------
\* C22: for every Decision d the pipeline returns, Decision.from_dict of
\* d.to_dict() raises nothing and gives a Decision with the action,
\* rationale, trace_id, evidence_summary and gate_contributions of d, the
\* same per-gate gate_decisions entries, decision_code, final_gate, policy
\* name and version and timestamp, and with the to_dict of d.
C22_RoundTripRecoversDecision ==
  (status = "returned" /\ restored # NoRestored) =>
    /\ restored.raised = ""
    /\ LET d == restored.returned
       IN /\ d.action = decision.action
          /\ d.rationale = decision.rationale
          /\ d.trace_id = decision.trace_id
          /\ d.evidence_summary = decision.evidence_summary
          /\ d.gate_contributions = decision.gate_contributions
          /\ Keys(d.gate_decisions) = Keys(decision.gate_decisions)
          /\ \A i \in 1..Len(decision.gate_decisions) :
               LET a == d.gate_decisions[i].value
                   b == decision.gate_decisions[i].value
               IN /\ a.gate_name = b.gate_name
                  /\ a.suggested_action = b.suggested_action
                  /\ a.rationale = b.rationale
                  /\ a.config_used = b.config_used
                  /\ a.input_summary = b.input_summary
          /\ d.decision_code = decision.decision_code
          /\ d.final_gate = decision.final_gate
          /\ d.policy_name = decision.policy_name
          /\ d.policy_version = decision.policy_version
          /\ d.timestamp = decision.timestamp
          /\ d.required_steps = decision.required_steps
          /\ to_dict(d) = to_dict(decision)

\* the Decision of a call under a policy, with two gates heard and one of
\* them the final gate, was serialized and reconstructed
C22_Witness ==
  /\ status = "returned"
  /\ restored # NoRestored
  /\ policy.given
  /\ Len(decision.gate_decisions) = 2
  /\ decision.final_gate # None
  /\ decision.gate_decisions[1].value.config_used # NoneV
  /\ restored.returned.gate_decisions = decision.gate_decisions

\* ------------------------------------------------------------------------
\* core/types.py: the construction of an Intent, and core/errors.py
\* ------------------------------------------------------------------------
\* core/errors.py: GovernanceError and the classes derived from it
GovernanceErrors == {"GovernanceError", "PolicyError", "GateError", "ValidationError"}

\* Intent(name, confidence, parameters): the dataclass's __init__ followed by
\* __post_init__. "0.0 <= confidence <= 1.0" of a value that is no number
\* raises TypeError; a bool is a number (True is 1). The object keeps the
\* confidence it was given, which the model holds in hundredths.
IntentInit(name, confidence, parameters) ==
  IF ~IsNumber(confidence) THEN [raised |-> "TypeError", returned |-> NoIntent]
  ELSE IF ~(0 <= Hundredths(confidence) /\ Hundredths(confidence) <= 100)
  THEN [raised |-> "ValueError", returned |-> NoIntent]
  ELSE [raised |-> "", returned |-> Intent(name, Hundredths(confidence), parameters)]

\* the arguments a caller constructs an Intent from
IntentNames == {OrderStatusQuery, Refund, <<"unknown">>}
IntentConfidences ==
  {FloatV(0 - 1), FloatV(0), FloatV(1), FloatV(59), FloatV(60), FloatV(100), FloatV(101),
   FloatV(150), IntV(0 - 1), IntV(0), IntV(1), IntV(2), BoolV(TRUE), StrV("high"), NoneV}
IntentParameters == {EmptyDict, [user_input |-> FraudInput]}

\* a pipeline of one or two of the gates, configured
InitIntent ==
  /\ gates \in {<<GateObject("uncertainty", "uncertainty", UncertaintyGate(60, FALSE, 30))>>,
                <<GateObject("safety", "safety", SafetyGate({}, {}, FALSE)),
                  GateObject("uncertainty", "uncertainty", UncertaintyGate(60, FALSE, 30))>>}
  /\ built = gates
  /\ default_action = ALLOW
  /\ hash_seed = 0
  /\ issued = 0
  /\ status = "idle"
  /\ exception = ""
  /\ intent = NoIntent
  /\ context = NoContext
  /\ evidence = NoEvidence
  /\ policy = NoPolicy
  /\ decision = NoDecision
  /\ winning_gate = None
  /\ primary_gate = None
  /\ primary_reason_type = <<"default">>
  /\ idx = 1
  /\ trail = <<>>
  /\ repeated = FALSE
  /\ prev = NoDecision
  /\ file = NoFile
  /\ loaded = NoneV
  /\ restored = NoRestored
  /\ threads = NoThreads
  /\ http = NoHttp
  /\ graph = NoGraph

\* The caller constructs the Intent of its next evaluate call. When the
\* construction raises, the caller holds no Intent; trail keeps the arguments
\* of the construction that raised.
ConstructIntent(name, confidence, parameters) ==
  /\ status = "idle"
  /\ intent = NoIntent
  /\ issued < MaxCalls
  /\ \E r \in {IntentInit(name, confidence, parameters)} :
       IF r.raised # ""
       THEN /\ status' = "raised"
            /\ exception' = r.raised
            /\ trail' = <<[name |-> name, confidence |-> confidence,
                           parameters |-> parameters]>>
            /\ UNCHANGED intent
       ELSE /\ intent' = r.returned
            /\ UNCHANGED <<status, exception, trail>>
  /\ UNCHANGED <<graph, http, threads, restored, file, loaded, gates, built, default_action, hash_seed, issued,
                 context, evidence, policy, decision, winning_gate, primary_gate,
                 primary_reason_type, idx, repeated, prev>>

\* pipeline.evaluate is called with the Intent the caller constructed
EvaluateConstructed(ctx, ev, pol) ==
  /\ status = "idle"
  /\ intent # NoIntent
  /\ Start(intent, ctx, ev, pol)
  /\ repeated' = FALSE
  /\ prev' = NoDecision

NextIntent ==
  \/ \E name \in IntentNames, confidence \in IntentConfidences,
        parameters \in IntentParameters : ConstructIntent(name, confidence, parameters)
  \/ \E ctx \in PipeContexts, ev \in PipeEvidence, pol \in PipePolicies :
       EvaluateConstructed(ctx, ev, pol)
  \/ GateStep
  \/ Finish
  \/ Collect

SpecIntent == InitIntent /\ [][NextIntent]_vars

\* C23: constructing an Intent with a confidence outside [0, 1] fails with
\* the taxonomy's ValidationError, a GovernanceError; no gate runs on an
\* intent with such a confidence; and confidence exactly 0 and exactly 1 are
\* accepted, so a construction that raised was given neither.
C23_OutOfRangeRaisesValidationError ==
  /\ (status = "raised" /\ idx = 1 /\ Len(trail) = 1 /\ IsNumber(trail[1].confidence)
        /\ (Hundredths(trail[1].confidence) < 0 \/ Hundredths(trail[1].confidence) > 100))
       => (exception = "ValidationError" /\ exception \in GovernanceErrors)
  /\ (status = "running") => (0 <= intent.confidence /\ intent.confidence <= 100)
  /\ (status = "raised" /\ idx = 1 /\ Len(trail) = 1 /\ IsNumber(trail[1].confidence))
       => Hundredths(trail[1].confidence) \notin {0, 100}

\* ------------------------------------------------------------------------
\* core/pipeline.py and gates/*.py: two threads inside evaluate at once, on
\* one pipeline whose gate objects they share
\* ------------------------------------------------------------------------
\* A thread's steps are the reads and the writes of the shared instance
\* fields; what a thread does between two of them is local to it. A gate's
\* evaluate writes the override field by field, then its rules read the
\* fields; get_config_snapshot reads them again.
Threads == {1, 2}

\* the fields evaluate assigns from the policy's entry, in the order of the
\* assignments
OverrideFields(kind) ==
  CASE kind = "safety" -> <<"fraud_keywords", "illegal_keywords", "stop_on_sensitive_stop">>
    [] kind = "uncertainty" ->
         <<"confidence_threshold", "stop_on_conflict", "outdated_version_days">>
    [] kind = "fact_verifiability" ->
         <<"require_realtime_facts", "verifiable_threshold", "stop_on_unverifiable">>
    [] kind = "responsibility" ->
         <<"financial_intents", "authority_intents", "sensitive_intents", "stop_on_sensitive">>

\* "self.x = policy_config.get(key, self.x)" reads self.x and stores later;
\* "self.x.update(...)" of a set reads and writes it in one call
UpdatesInPlace(kind, field) ==
  kind = "safety" /\ field \in {"fraud_keywords", "illegal_keywords"}

\* the fields the rules of evaluate read, in the order they first read them
RuleFields(kind) ==
  CASE kind = "safety" ->
         <<"fraud_keywords", "illegal_keywords", "security_keywords", "stop_on_sensitive_stop">>
    [] kind = "uncertainty" ->
         <<"confidence_threshold", "stop_on_conflict", "outdated_version_days">>
    [] kind = "fact_verifiability" ->
         <<"require_realtime_facts", "stop_on_unverifiable", "verifiable_threshold">>
    [] kind = "responsibility" ->
         <<"financial_intents", "authority_intents", "sensitive_intents", "stop_on_sensitive">>

\* the fields get_config_snapshot reads, in its order
SnapshotFields(kind) ==
  CASE kind = "safety" ->
         <<"fraud_keywords", "illegal_keywords", "security_keywords", "stop_on_sensitive_stop">>
    [] kind = "uncertainty" ->
         <<"confidence_threshold", "stop_on_conflict", "outdated_version_days">>
    [] kind = "fact_verifiability" ->
         <<"verifiable_threshold", "require_realtime_facts", "stop_on_unverifiable">>
    [] kind = "responsibility" ->
         <<"financial_intents", "authority_intents", "sensitive_intents", "stop_on_sensitive">>

\* the sets SafetyGate.evaluate iterates with "for keyword in self.x"
IteratedFields == {"fraud_keywords", "illegal_keywords", "security_keywords"}

\* an override that stores back what it read and leaves the policy's entry out
GateOverride_keeps_fields(kind, f, pol) == f
\* the override of a gate's evaluate on the fields f, by the gate's class
GateOverride(kind, f, pol) ==
  CASE kind = "safety" -> SafetyOverride(f, pol)
    [] kind = "uncertainty" -> UncertaintyOverride(f, pol)
    [] kind = "fact_verifiability" -> FactOverride(f, pol)
    [] kind = "responsibility" -> ResponsibilityOverride(f, pol)

\* the rules of a gate's evaluate on the fields f it read, by the gate's class
GateRules(kind, f, in, ev, seed) ==
  CASE kind = "safety" -> SafetyRules(f, in, ev, seed)
    [] kind = "uncertainty" -> UncertaintyRules(f, in, ev)
    [] kind = "fact_verifiability" -> FactRules(f, in, ev)
    [] kind = "responsibility" -> ResponsibilityRules(f, in, ev)

\* the locals of a thread that has not called evaluate
IdleThread ==
  [k |-> 1, evidence |-> NoEvidence, policy |-> NoPolicy, intent |-> NoIntent,
   context |-> NoContext, primary_gate |-> None, exception |-> "",
   decision |-> NoDecision, winning_gate |-> None, primary_reason_type |-> <<"default">>,
   idx |-> 1, r |-> [action |-> None, rationale |-> <<>>], pc |-> "idle", temp |-> <<>>,
   seen |-> EmptyDict]

\* evaluate, lines 155-177, on the locals th of a thread: what the loop does
\* with the pair r that gate.evaluate returned and the two summaries
Turn(th, gate_name, r, config_used, input_summary) ==
  LET recorded == add_gate_decision(th.decision, gate_name, r.action, r.rationale,
                                    OrNone(config_used), OrNone(input_summary))
      wins == r.action # None /\ dominates(r.action, recorded.action)
  IN IF ~wins THEN [th EXCEPT !.decision = recorded]
     ELSE IF Len(r.rationale) > 0 /\ SplitCount(r.rationale) = 0
     THEN [th EXCEPT !.pc = "raised", !.exception = "IndexError"]
     ELSE [th EXCEPT !.decision = override(recorded, r.action, gate_name, r.rationale,
                                           config_used, input_summary),
                     !.winning_gate = gate_name,
                     !.primary_gate = gate_name,
                     !.primary_reason_type = IF Len(r.rationale) > 0
                                             THEN FirstWord(r.rationale)
                                             ELSE <<"override">>]

\* evaluate, lines 179-194, on the locals th of a thread
Finished(th) ==
  LET final_gate == IF th.decision.action # ALLOW THEN th.winning_gate ELSE None
      decision_code ==
        IF th.primary_gate \notin {None, ""}
        THEN generate_decision_code(th.decision.action, th.primary_gate,
                                    th.primary_reason_type)
        ELSE <<"GOVERNANCE", "_", th.decision.action, "_", "DEFAULT">>
  IN [th EXCEPT !.pc = "returned",
                !.decision = [@ EXCEPT !.final_gate = final_gate,
                                       !.decision_code = decision_code]]

\* the thread arrives at the gate of position th.idx, or past the last gate:
\* "if policy: policy_config = policy.get_gate_config(self.name); if
\* policy_config:" decides whether the gate writes an override
Enter(th) ==
  IF th.pc = "raised" THEN th
  ELSE IF th.idx > Len(gates)
  THEN [th EXCEPT !.pc = "finish", !.k = 1, !.temp = <<>>, !.seen = EmptyDict]
  ELSE [th EXCEPT !.pc = IF DOMAIN PolicyConfig(th.policy, gates[th.idx].name) # {}
                         THEN "override" ELSE "rules",
                  !.k = 1, !.temp = <<>>, !.seen = built[th.idx].f]

ThreadIntents == PipeIntents
ThreadEvidence ==
  {Evidence(EmptyDict, EmptyDict, EmptyDict), Evidence(Unverifiable, Conflicts, EmptyDict)}
\* a policy that sets some of the keys the strict policy sets, to other values,
\* and leaves the safety gate alone
PermissivePolicy ==
  Policy("permissive", "2.0", <<>>,
    [uncertainty |-> [confidence_threshold |-> 90, stop_on_conflict |-> FALSE],
     fact_verifiability |-> [verifiable_threshold |-> 50, stop_on_unverifiable |-> FALSE],
     responsibility |-> [stop_on_sensitive |-> FALSE]])
ThreadPolicies == {NoPolicy, StrictPolicy, PermissivePolicy}
ThreadGateLists ==
  {<<GateObject("safety", "safety", SafetyGate({}, {}, FALSE))>>,
   <<GateObject("uncertainty", "uncertainty", UncertaintyGate(60, FALSE, 30))>>,
   <<GateObject("responsibility", "responsibility", ResponsibilityGate({}, {}, {}, TRUE)),
     GateObject("uncertainty", "uncertainty", UncertaintyGate(90, FALSE, 30))>>,
   <<GateObject("fact_verifiability", "fact_verifiability",
                FactVerifiabilityGate({}, 70, FALSE))>>,
   <<GateObject("responsibility", "responsibility", ResponsibilityGate({}, {}, {}, FALSE))>>}

\* a pipeline over gates as their constructors left them, and two threads
\* about to call its evaluate
InitThreads ==
  /\ gates \in ThreadGateLists
  /\ built = gates
  /\ default_action = ALLOW
  /\ hash_seed = 0
  /\ issued = 0
  /\ status = "idle"
  /\ exception = ""
  /\ intent = NoIntent
  /\ context = NoContext
  /\ evidence = NoEvidence
  /\ policy = NoPolicy
  /\ decision = NoDecision
  /\ winning_gate = None
  /\ primary_gate = None
  /\ primary_reason_type = <<"default">>
  /\ idx = 1
  /\ trail = <<>>
  /\ repeated = FALSE
  /\ prev = NoDecision
  /\ file = NoFile
  /\ loaded = NoneV
  /\ restored = NoRestored
  /\ threads = [t \in Threads |-> IdleThread]
  /\ http = NoHttp
  /\ graph = NoGraph

\* thread t calls pipeline.evaluate(in, ctx, ev, pol): lines 126-152
ThreadEvaluate(t, in, ctx, ev, pol) ==
  /\ threads[t].pc = "idle"
  /\ issued' = issued + 1
  /\ threads' = [threads EXCEPT ![t] =
       Enter([IdleThread EXCEPT
                !.pc = "running", !.intent = in, !.context = ctx, !.evidence = ev,
                !.policy = pol,
                !.decision = StartDecision(in, ctx, ev, pol, generate_trace_id(issued))])]
  /\ UNCHANGED <<graph, http, restored, file, loaded, gates, built, default_action, hash_seed, status,
                 exception, intent, context, evidence, policy, decision, winning_gate,
                 primary_gate, primary_reason_type, idx, trail, repeated, prev>>

\* thread t, in a gate's override, reads the field it is about to assign:
\* the default argument of policy_config.get(key, self.x)
LoadDefault(t) ==
  /\ threads[t].pc = "override"
  /\ threads[t].temp = <<>>
  /\ LET th == threads[t]
         g == gates[th.idx]
         field == OverrideFields(g.kind)[th.k]
     IN /\ ~UpdatesInPlace(g.kind, field)
        /\ threads' = [threads EXCEPT ![t].temp = <<g.f[field]>>]
  /\ UNCHANGED <<graph, http, restored, file, loaded, gates, built, default_action, hash_seed, issued,
                 status, exception, intent, context, evidence, policy, decision,
                 winning_gate, primary_gate, primary_reason_type, idx, trail, repeated,
                 prev>>

\* thread t, in a gate's override, assigns a field of the shared instance
StoreField(t) ==
  /\ threads[t].pc = "override"
  /\ LET th == threads[t]
         g == gates[th.idx]
         fields == OverrideFields(g.kind)
         field == fields[th.k]
         held == IF UpdatesInPlace(g.kind, field) THEN g.f[field] ELSE th.temp[1]
         value == GateOverride(g.kind, [g.f EXCEPT ![field] = held], th.policy)[field]
     IN /\ UpdatesInPlace(g.kind, field) \/ th.temp # <<>>
        /\ gates' = [gates EXCEPT ![th.idx].f[field] = value]
        /\ threads' = [threads EXCEPT ![t] =
             IF th.k = Len(fields) THEN [th EXCEPT !.pc = "rules", !.k = 1, !.temp = <<>>]
             ELSE [th EXCEPT !.k = @ + 1, !.temp = <<>>]]
  /\ UNCHANGED <<graph, http, restored, file, loaded, built, default_action, hash_seed, issued, status,
                 exception, intent, context, evidence, policy, decision, winning_gate,
                 primary_gate, primary_reason_type, idx, trail, repeated, prev>>

\* thread t, in a gate's rules, reads a field of the shared instance; with
\* the last one read the rules have their verdict
ReadField(t) ==
  /\ threads[t].pc = "rules"
  /\ LET th == threads[t]
         g == gates[th.idx]
         fields == RuleFields(g.kind)
         field == fields[th.k]
         view == [th.seen EXCEPT ![field] = g.f[field]]
     IN threads' = [threads EXCEPT ![t] =
          IF th.k < Len(fields) THEN [th EXCEPT !.seen = view, !.k = @ + 1]
          ELSE LET res == GateRules(g.kind, view, th.intent, th.evidence, hash_seed)
               IN IF res.raised # ""
                  THEN [th EXCEPT !.pc = "raised", !.exception = res.raised, !.seen = view]
                  ELSE [th EXCEPT !.pc = "snapshot", !.k = 1, !.seen = built[th.idx].f,
                                  !.r = [action |-> res.action,
                                         rationale |-> res.rationale]]]
  /\ UNCHANGED <<graph, http, restored, file, loaded, gates, built, default_action, hash_seed, issued,
                 status, exception, intent, context, evidence, policy, decision,
                 winning_gate, primary_gate, primary_reason_type, idx, trail, repeated,
                 prev>>

\* thread t is in "for keyword in self.x" of SafetyGate.evaluate, no earlier
\* loop having returned, and the other thread has meanwhile added to the set:
\* the loop's next step raises RuntimeError (Set changed size during
\* iteration), unless the loop has returned or ended before, in which case
\* the thread carries on with ReadField
IterationBroken(t) ==
  /\ threads[t].pc = "rules"
  /\ threads[t].k > 1
  /\ LET th == threads[t]
         g == gates[th.idx]
         fields == RuleFields(g.kind)
         field == fields[th.k - 1]
     IN /\ g.kind = "safety"
        /\ field \in IteratedFields
        /\ g.f[field] # th.seen[field]
        /\ \A i \in 1..(th.k - 2) :
             FirstKeyword(th.seen[fields[i]], UserInputLower(th.intent), hash_seed) = <<>>
        /\ threads' = [threads EXCEPT ![t] =
                         [th EXCEPT !.pc = "raised", !.exception = "RuntimeError"]]
  /\ UNCHANGED <<graph, http, restored, file, loaded, gates, built, default_action, hash_seed, issued,
                 status, exception, intent, context, evidence, policy, decision,
                 winning_gate, primary_gate, primary_reason_type, idx, trail, repeated,
                 prev>>

\* thread t, in gate.get_config_snapshot(), reads a field of the shared
\* instance; with the last one read, lines 159-177 record the gate's turn in
\* the thread's Decision and the loop moves on
SnapshotField(t) ==
  /\ threads[t].pc = "snapshot"
  /\ LET th == threads[t]
         g == gates[th.idx]
         fields == SnapshotFields(g.kind)
         field == fields[th.k]
         view == [th.seen EXCEPT ![field] = g.f[field]]
         after == [g EXCEPT !.f = view]
     IN threads' = [threads EXCEPT ![t] =
          IF th.k < Len(fields) THEN [th EXCEPT !.seen = view, !.k = @ + 1]
          ELSE Enter([Turn(th, g.name, th.r, GateSnapshot(after),
                           GateSummary(after, th.evidence))
                        EXCEPT !.idx = @ + 1])]
  /\ UNCHANGED <<graph, http, restored, file, loaded, gates, built, default_action, hash_seed, issued,
                 status, exception, intent, context, evidence, policy, decision,
                 winning_gate, primary_gate, primary_reason_type, idx, trail, repeated,
                 prev>>

\* thread t leaves the loop: lines 179-194, and the return
ThreadFinish(t) ==
  /\ threads[t].pc = "finish"
  /\ threads' = [threads EXCEPT ![t] = Finished(threads[t])]
  /\ UNCHANGED <<graph, http, restored, file, loaded, gates, built, default_action, hash_seed, issued,
                 status, exception, intent, context, evidence, policy, decision,
                 winning_gate, primary_gate, primary_reason_type, idx, trail, repeated,
                 prev>>

NextThreads ==
  \/ \E t \in Threads, in \in ThreadIntents, ctx \in PipeContexts, ev \in ThreadEvidence,
        pol \in ThreadPolicies : ThreadEvaluate(t, in, ctx, ev, pol)
  \/ \E t \in Threads : LoadDefault(t)
  \/ \E t \in Threads : StoreField(t)
  \/ \E t \in Threads : ReadField(t)
  \/ \E t \in Threads : IterationBroken(t)
  \/ \E t \in Threads : SnapshotField(t)
  \/ \E t \in Threads : ThreadFinish(t)

SpecThreads == InitThreads /\ [][NextThreads]_vars

\* evaluate run by one thread alone, from its call to its return, on the gate
\* objects gs: the gate objects it leaves and the thread's locals at the end
RECURSIVE RunGates(_, _, _)
RunGates(gs, th, seed) ==
  IF th.pc = "raised" THEN [gates |-> gs, thread |-> th]
  ELSE IF th.idx > Len(gs) THEN [gates |-> gs, thread |-> Finished(th)]
  ELSE LET g == gs[th.idx]
           res == GateEvaluate(g, th.intent, th.evidence, th.policy, seed)
           after == [g EXCEPT !.f = res.f]
           left == [gs EXCEPT ![th.idx] = after]
       IN IF res.raised # ""
          THEN [gates |-> left,
                thread |-> [th EXCEPT !.pc = "raised", !.exception = res.raised]]
          ELSE RunGates(left,
                            [Turn(th, g.name, res, GateSnapshot(after),
                                  GateSummary(after, th.evidence))
                               EXCEPT !.idx = @ + 1],
                            seed)

\* the locals of thread t at the start of its call
C24_Called(t) ==
  [IdleThread EXCEPT !.pc = "running", !.intent = threads[t].intent,
                     !.context = threads[t].context, !.evidence = threads[t].evidence,
                     !.policy = threads[t].policy,
                     !.decision = StartDecision(threads[t].intent, threads[t].context,
                                                threads[t].evidence, threads[t].policy,
                                                threads[t].decision.trace_id)]

\* what thread t's call returns when it runs alone before the call of thread
\* o, and when it runs alone after it
C24_First(t) == RunGates(built, C24_Called(t), hash_seed)
C24_Second(t, o) == RunGates(C24_First(o).gates, C24_Called(t), hash_seed)

\* the two results agree in what the caller sees of them
C24_SameResult(th, alone) ==
  /\ th.pc = alone.pc
  /\ th.exception = alone.exception
  /\ th.pc = "returned" =>
       /\ th.decision.action = alone.decision.action
       /\ th.decision.rationale = alone.decision.rationale
       /\ th.decision.final_gate = alone.decision.final_gate
       /\ th.decision.gate_decisions = alone.decision.gate_decisions

\* C24: when two threads call evaluate on one pipeline at once, both without
\* a policy or both with the same policy, each call ends under every
\* interleaving as it ends when the two calls run one after the other, in
\* either order: the same action, rationale, final_gate and gate_decisions,
\* and no exception; each Decision holds one record per gate of the pipeline,
\* made from the call's own evidence.
C24_SamePolicyCallsAgreeWithSequential ==
  \A t \in Threads :
    LET o == CHOOSE u \in Threads : u # t
    IN (/\ threads[t].pc \in {"returned", "raised"}
        /\ threads[o].pc # "idle"
        /\ threads[t].policy = threads[o].policy)
       => /\ C24_SameResult(threads[t], C24_First(t).thread)
          /\ C24_SameResult(threads[t], C24_Second(t, o).thread)
          /\ threads[t].pc = "returned"
          /\ Keys(threads[t].decision.gate_decisions)
               = [i \in 1..Len(gates) |-> gates[i].name]
          /\ \A i \in 1..Len(gates) :
               Lookup(threads[t].decision.gate_decisions, gates[i].name).input_summary
                 = OrNone(GateSummary(gates[i], threads[t].evidence))

\* thread 1 called evaluate after thread 2 did and returned before thread 2
\* has: thread 2 is still in the second gate, whose override both have
\* written from the strict policy, on other evidence than thread 1's
C24_Witness ==
  /\ threads[1].pc = "returned"
  /\ threads[2].pc = "snapshot"
  /\ threads[2].idx = 2
  /\ threads[1].decision.trace_id = generate_trace_id(1)
  /\ threads[2].decision.trace_id = generate_trace_id(0)
  /\ threads[1].policy = StrictPolicy
  /\ threads[2].policy = StrictPolicy
  /\ threads[1].evidence # threads[2].evidence
  /\ threads[1].decision.action = STOP
  /\ threads[2].r.action = None
  /\ gates # built

\* ------------------------------------------------------------------------
\* api/main.py, api/config.py and the customer support starter kit: a
\* client asks the service's POST /decision and acts on what it is handed
\* ------------------------------------------------------------------------
\* APIConfig.failure_mode, as from_env accepts it
FailureModes == {"fail_closed", "fail_open"}

\* create_pipeline(): the four gates with their constructors' defaults
create_pipeline ==
  <<GateObject("safety", "safety", SafetyGate({}, {}, FALSE)),
    GateObject("fact_verifiability", "fact_verifiability",
               FactVerifiabilityGate({}, 70, FALSE)),
    GateObject("uncertainty", "uncertainty", UncertaintyGate(60, FALSE, 30)),
    GateObject("responsibility", "responsibility", ResponsibilityGate({}, {}, {}, FALSE))>>

\* PolicyEvaluator(policy_dict) as pipeline.evaluate and the gates read it:
\* the policy's name and version, and the gates' entries, of which the files
\* of the model hold none that is not empty
PolicyEvaluatorOf(document) ==
  Policy(document.d["name"].s, document.d["version"].s, <<>>, EmptyDict)

GovernanceRequest(in, ctx, ev, policy_path) ==
  [evidence |-> ev, intent |-> in, context |-> ctx, policy_path |-> policy_path]

\* the response of POST /decision: the status code, the JSON body, and
\* whether pipeline.evaluate returned while the request was handled
Response(status_code, body, evaluated) ==
  [status_code |-> status_code, body |-> body, evaluated |-> evaluated]

\* POST /decision on a request, with the policy file as it is now. FastAPI
\* answers 422 to a request the model IntentRequest refuses (confidence has
\* ge=0.0, le=1.0); evaluate_decision turns a policy that does not load into
\* 400 and every other exception into 500; http_exception_handler sends the
\* detail under "error". failure_mode is read nowhere.
evaluate_decision(failure_mode, request, content, trace_id, seed) ==
  LET confidence == request.intent.confidence
      given == request.policy_path # None
      got == IF given THEN load(content)
             ELSE [raised |-> "", returned |-> NoneV, message |-> <<>>]
  IN IF ~IsNumber(confidence) \/ Hundredths(confidence) < 0 \/ Hundredths(confidence) > 100
     THEN Response(422, [error |-> "Request validation"], FALSE)
     ELSE IF got.raised \in {"PolicyError", "PolicyValidationError", "FileNotFoundError"}
     THEN Response(400, [error |-> "Policy error"], FALSE)
     ELSE IF got.raised # ""
     THEN Response(500, [error |-> "Unexpected error"], FALSE)
     ELSE LET pol == IF given THEN PolicyEvaluatorOf(got.returned) ELSE NoPolicy
              made == IntentInit(request.intent.name, confidence, request.intent.parameters)
              run == RunGates(create_pipeline,
                              [IdleThread EXCEPT
                                 !.pc = "running", !.intent = made.returned,
                                 !.context = request.context,
                                 !.evidence = request.evidence, !.policy = pol,
                                 !.decision = StartDecision(made.returned, request.context,
                                                            request.evidence, pol, trace_id)],
                              seed)
              d == run.thread.decision
          IN IF made.raised # "" \/ run.thread.pc = "raised"
             THEN Response(500, [error |-> "Unexpected error"], FALSE)
             ELSE Response(200, [action |-> d.action, rationale |-> d.rationale,
                                 trace_id |-> IntV(d.trace_id), final_gate |-> d.final_gate],
                           TRUE)

\* the decision _check_governance makes up when the request fails
Fallback ==
  [action |-> ESCALATE, rationale |-> Words(<<"Governance", "gate", "unavailable">>),
   trace_id |-> NoneV, final_gate |-> None, error |-> "governance_unavailable"]

\* a client that takes the body of any response for the decision
check_governance_any_status(sent) ==
  IF sent.raised # "" THEN [raised |-> "", returned |-> Fallback]
  ELSE IF {"action", "rationale", "trace_id"} \subseteq DOMAIN sent.response.body
  THEN [raised |-> "", returned |-> sent.response.body]
  ELSE [raised |-> "KeyError", returned |-> NoneV]

\* CustomerSupportAgent._check_governance, given what session.post did: it
\* raised a RequestException or returned a response. raise_for_status raises
\* HTTPError, a RequestException, on a status of 400 and above; _log_decision
\* reads three keys of the body.
check_governance(sent) ==
  IF sent.raised # "" THEN [raised |-> "", returned |-> Fallback]
  ELSE IF sent.response.status_code >= 400 THEN [raised |-> "", returned |-> Fallback]
  ELSE IF {"action", "rationale", "trace_id"} \subseteq DOMAIN sent.response.body
  THEN [raised |-> "", returned |-> sent.response.body]
  ELSE [raised |-> "KeyError", returned |-> NoneV]

\* CustomerSupportAgent._execute_decision: what the agent does with the
\* decision it was handed
execute_decision(d) ==
  CASE d.action = ALLOW -> [status |-> "completed", governance_action |-> ALLOW]
    [] d.action = RESTRICT -> [status |-> "restricted", governance_action |-> RESTRICT]
    [] d.action = ESCALATE -> [status |-> "escalated", governance_action |-> ESCALATE]
    [] d.action = STOP -> [status |-> "refused", governance_action |-> STOP]
    [] OTHER -> [status |-> "escalated", governance_action |-> "UNKNOWN"]

NoResponse == Response(0, EmptyDict, FALSE)

ServiceIntents ==
  {Intent(OrderStatusQuery, FloatV(95), EmptyDict),
   Intent(Refund, FloatV(95), [user_input |-> FraudInput]),
   Intent(Refund, FloatV(150), EmptyDict)}
ServiceRequests ==
  {GovernanceRequest(in, ctx, ev, policy_path) :
     in \in ServiceIntents, ctx \in PipeContexts, ev \in PipeEvidence,
     policy_path \in {None, "policy.yaml"}}
\* the file the request's policy_path names: missing, not YAML, a policy, and
\* documents the loader refuses or fails on
ServiceFiles ==
  {NoFile, Unparsable,
   Document(StrV("1.0"), StrV("strict"), ListV(<<GoodEntry>>),
            DictV([safety |-> DictV(EmptyDict)])),
   Document(Absent, StrV("strict"), StrV("none"), Absent),
   Document(StrV("1.0"), StrV("strict"), ListV(<<IntV(5)>>), Absent)}

\* the service runs under a failure mode; a client is about to ask it
InitService ==
  /\ gates = <<>>
  /\ built = <<>>
  /\ default_action = ALLOW
  /\ hash_seed \in {0, 1}
  /\ issued = 0
  /\ status = "idle"
  /\ exception = ""
  /\ intent = NoIntent
  /\ context = NoContext
  /\ evidence = NoEvidence
  /\ policy = NoPolicy
  /\ decision = NoDecision
  /\ winning_gate = None
  /\ primary_gate = None
  /\ primary_reason_type = <<"default">>
  /\ idx = 1
  /\ trail = <<>>
  /\ repeated = FALSE
  /\ prev = NoDecision
  /\ file \in ServiceFiles
  /\ loaded = NoneV
  /\ restored = NoRestored
  /\ threads = NoThreads
  /\ http \in {[result |-> NoneV, failure_mode |-> m, request |-> NoneV,
                sent |-> [raised |-> "", response |-> NoResponse],
                response |-> NoResponse,
                stage |-> "idle",
                handed |-> [raised |-> "", returned |-> NoneV]] : m \in FailureModes}
  /\ graph = NoGraph

\* _check_governance posts the request; the service is reached, or the
\* connection fails and session.post raises ConnectionError
ClientPost(request, reached) ==
  /\ http.stage = "idle"
  /\ http' = IF reached THEN [http EXCEPT !.stage = "received", !.request = request]
             ELSE [http EXCEPT !.stage = "answered", !.request = request,
                               !.sent = [raised |-> "ConnectionError",
                                         response |-> NoResponse]]
  /\ UNCHANGED <<graph, threads, restored, file, loaded, gates, built, default_action, hash_seed,
                 issued, status, exception, intent, context, evidence, policy, decision,
                 winning_gate, primary_gate, primary_reason_type, idx, trail, repeated,
                 prev>>

\* the service handles the request
HandleDecision ==
  /\ http.stage = "received"
  /\ issued' = issued + 1
  /\ http' = [http EXCEPT !.stage = "responded",
                          !.response = evaluate_decision(http.failure_mode, http.request,
                                                         file, generate_trace_id(issued),
                                                         hash_seed)]
  /\ UNCHANGED <<graph, threads, restored, file, loaded, gates, built, default_action, hash_seed,
                 status, exception, intent, context, evidence, policy, decision,
                 winning_gate, primary_gate, primary_reason_type, idx, trail, repeated,
                 prev>>

\* session.post ends: with the response, or with Timeout when the response
\* does not arrive within the two seconds
PostReturns(arrived) ==
  /\ http.stage = "responded"
  /\ http' = [http EXCEPT !.stage = "answered",
                          !.sent = IF arrived
                                   THEN [raised |-> "", response |-> http.response]
                                   ELSE [raised |-> "Timeout", response |-> NoResponse]]
  /\ UNCHANGED <<graph, threads, restored, file, loaded, gates, built, default_action, hash_seed,
                 issued, status, exception, intent, context, evidence, policy, decision,
                 winning_gate, primary_gate, primary_reason_type, idx, trail, repeated,
                 prev>>

\* the rest of _check_governance: the decision handed to the agent
CheckGovernance ==
  /\ http.stage = "answered"
  /\ http' = [http EXCEPT !.stage = "handed", !.handed = check_governance(http.sent)]
  /\ UNCHANGED <<graph, threads, restored, file, loaded, gates, built, default_action, hash_seed,
                 issued, status, exception, intent, context, evidence, policy, decision,
                 winning_gate, primary_gate, primary_reason_type, idx, trail, repeated,
                 prev>>

\* handle_request goes on to _execute_decision
ExecuteDecision ==
  /\ http.stage = "handed"
  /\ http.handed.raised = ""
  /\ http' = [http EXCEPT !.stage = "done",
                          !.result = execute_decision(http.handed.returned)]
  /\ UNCHANGED <<graph, threads, restored, file, loaded, gates, built, default_action, hash_seed,
                 issued, status, exception, intent, context, evidence, policy, decision,
                 winning_gate, primary_gate, primary_reason_type, idx, trail, repeated,
                 prev>>

NextService ==
  \/ \E request \in ServiceRequests, reached \in BOOLEAN : ClientPost(request, reached)
  \/ HandleDecision
  \/ \E arrived \in BOOLEAN : PostReturns(arrived)
  \/ CheckGovernance
  \/ ExecuteDecision

SpecService == InitService /\ [][NextService]_vars

AdapterPipeline ==
  <<GateObject("fact_verifiability", "fact_verifiability",
               FactVerifiabilityGate({}, 70, FALSE)),
    GateObject("uncertainty", "uncertainty", UncertaintyGate(60, FALSE, 30)),
    GateObject("responsibility", "responsibility", ResponsibilityGate({}, {}, {}, FALSE))>>

\* LangGraphGovernanceAdapter.evaluate_governance(state): the update of the
\* state it returns, or the exception that leaves it
evaluate_governance(state, trace_id, seed) ==
  LET made == IntentInit(DictGet(state, "intent_name", <<"unknown">>),
                         DictGet(state, "intent_confidence", FloatV(100)),
                         DictGet(state, "intent_parameters", EmptyDict))
      ctx == Context(DictGet(state, "user_id", NoneV), DictGet(state, "channel", NoneV))
      ev == DictGet(state, "evidence", NoEvidence)
      run == RunGates(AdapterPipeline,
                      [IdleThread EXCEPT
                         !.pc = "running", !.intent = made.returned, !.context = ctx,
                         !.evidence = ev,
                         !.decision = StartDecision(made.returned, ctx, ev, NoPolicy,
                                                    trace_id)],
                      seed)
  IN IF made.raised # "" THEN [raised |-> made.raised, returned |-> EmptyDict]
     ELSE IF run.thread.pc = "raised"
     THEN [raised |-> run.thread.exception, returned |-> EmptyDict]
     ELSE [raised |-> "",
           returned |-> [governance_action |-> StrV(run.thread.decision.action),
                         governance_rationale |-> run.thread.decision.rationale,
                         governance_trace_id |-> IntV(run.thread.decision.trace_id)]]

\* LangGraphGovernanceAdapter.route_based_on_decision(state)
route_based_on_decision(state) ==
  LET action == DictGet(state, "governance_action", StrV("ALLOW"))
  IN CASE action = StrV("ALLOW") -> "execute_tools"
       [] action = StrV("RESTRICT") -> "respond_restricted"
       [] action = StrV("ESCALATE") -> "respond_escalate"
       [] action = StrV("STOP") -> "respond_stop"
       [] OTHER -> "respond_stop"

\* the AgentStates a workflow, or a caller of the adapter, starts from: with
\* no governance_action, with a null one, and with one an earlier run left
AgentStates ==
  {[k \in {"intent_name", "intent_confidence", "intent_parameters", "evidence"}
        \cup (IF governance_action = Absent THEN {} ELSE {"governance_action"}) |->
      CASE k = "intent_name" -> in.name
        [] k = "intent_confidence" -> FloatV(in.confidence)
        [] k = "intent_parameters" -> in.parameters
        [] k = "evidence" -> ev
        [] OTHER -> governance_action] :
     in \in PipeIntents \cup {Intent(Refund, 150, EmptyDict)}, ev \in PipeEvidence,
     governance_action \in {Absent, NoneV, StrV("ALLOW"), StrV("RESTRICT"), StrV("ESCALATE"),
                            StrV("STOP"), StrV("allow"), StrV("BLOCK")}}

\* an adapter with its default pipeline, and a state at the governance node
InitAdapter ==
  /\ gates = AdapterPipeline
  /\ built = gates
  /\ default_action = ALLOW
  /\ hash_seed = 0
  /\ issued = 0
  /\ status = "idle"
  /\ exception = ""
  /\ intent = NoIntent
  /\ context = NoContext
  /\ evidence = NoEvidence
  /\ policy = NoPolicy
  /\ decision = NoDecision
  /\ winning_gate = None
  /\ primary_gate = None
  /\ primary_reason_type = <<"default">>
  /\ idx = 1
  /\ trail = <<>>
  /\ repeated = FALSE
  /\ prev = NoDecision
  /\ file = NoFile
  /\ loaded = NoneV
  /\ restored = NoRestored
  /\ threads = NoThreads
  /\ http = NoHttp
  /\ graph \in {[exception |-> "", state |-> state, node |-> "governance_gate"] :
                  state \in AgentStates}

\* governance_gate_node: the state takes the update of evaluate_governance
GovernanceGateNode ==
  /\ graph.node = "governance_gate"
  /\ issued' = issued + 1
  /\ \E r \in {evaluate_governance(graph.state, generate_trace_id(issued), hash_seed)} :
       graph' = IF r.raised # ""
                THEN [graph EXCEPT !.node = "raised", !.exception = r.raised]
                ELSE [graph EXCEPT !.node = "routing",
                                   !.state = [k \in DOMAIN graph.state \cup DOMAIN r.returned |->
                                                IF k \in DOMAIN r.returned THEN r.returned[k]
                                                ELSE graph.state[k]]]
  /\ UNCHANGED <<http, threads, restored, file, loaded, gates, built, default_action,
                 hash_seed, status, exception, intent, context, evidence, policy, decision,
                 winning_gate, primary_gate, primary_reason_type, idx, trail, repeated,
                 prev>>

\* the conditional edge after the governance node, or a caller of the static
\* method with the state it has: the workflow moves to the node that
\* route_based_on_decision names
Route ==
  /\ graph.node \in {"governance_gate", "routing"}
  /\ graph' = [graph EXCEPT !.node = route_based_on_decision(graph.state)]
  /\ UNCHANGED <<http, threads, restored, file, loaded, gates, built, default_action,
                 hash_seed, issued, status, exception, intent, context, evidence, policy,
                 decision, winning_gate, primary_gate, primary_reason_type, idx, trail,
                 repeated, prev>>

\* execute_tools_node and respond_allowed, or one of the other respond
\* nodes: the workflow ends
Respond ==
  /\ graph.node \in {"execute_tools", "respond_restricted", "respond_escalate", "respond_stop"}
  /\ graph' = [graph EXCEPT !.node = IF graph.node = "execute_tools" THEN "END_tools_executed"
                                     ELSE "END"]
  /\ UNCHANGED <<http, threads, restored, file, loaded, gates, built, default_action,
                 hash_seed, issued, status, exception, intent, context, evidence, policy,
                 decision, winning_gate, primary_gate, primary_reason_type, idx, trail,
                 repeated, prev>>

NextAdapter ==
  \/ GovernanceGateNode
  \/ Route
  \/ Respond

SpecAdapter == InitAdapter /\ [][NextAdapter]_vars

\* C26: tools are executed only after a governance_action of ALLOW: the
\* workflow is at execute_tools only when the state's governance_action is
\* "ALLOW"; RESTRICT, ESCALATE and STOP lead to their respond nodes; every
\* other state (another string, a null governance_action, no governance_action
\* at all) leads to respond_stop.
C26_ToolsOnlyAfterAllow ==
  graph.node \in {"execute_tools", "respond_restricted", "respond_escalate", "respond_stop"}
    => LET recorded == "governance_action" \in DOMAIN graph.state
           action == IF recorded THEN graph.state["governance_action"] ELSE Absent
       IN /\ graph.node = "execute_tools" <=> (recorded /\ action = StrV("ALLOW"))
          /\ graph.node = "respond_restricted" <=> (recorded /\ action = StrV("RESTRICT"))
          /\ graph.node = "respond_escalate" <=> (recorded /\ action = StrV("ESCALATE"))

\* the config_used thread t recorded for the gate of position i
C27_ConfigUsed(th, i) == Lookup(th.decision.gate_decisions, gates[i].name).config_used

\* C27: a thread's record of a gate can come from the other thread's policy.
\* Whatever the interleaving, each field of the config_used a call recorded
\* for the uncertainty, fact or responsibility gate holds the value the call
\* records when it runs alone, before or after the other call, or the value
\* the gate was built with (the other call stores back the value it read
\* when its policy leaves the key out), or the value the other call's policy
\* sets for that field; when the other call's policy has no entry for the
\* gate, the record is the one of the call alone. In the witness below the
\* value is the other policy's, against the call's own policy.
C27_RecordedConfigIsOwnOrOthers ==
  \A t \in Threads :
    LET o == CHOOSE u \in Threads : u # t
        th == threads[t]
        first == C24_First(t).thread
        second == C24_Second(t, o).thread
    IN (th.pc = "returned" /\ threads[o].pc # "idle" /\ th.policy # threads[o].policy)
       => \A i \in 1..Len(gates) :
            LET others == PolicyConfig(threads[o].policy, gates[i].name)
            IN gates[i].kind # "safety" =>
                 /\ \A field \in DOMAIN C27_ConfigUsed(th, i) :
                      \/ C27_ConfigUsed(th, i)[field] = C27_ConfigUsed(first, i)[field]
                      \/ C27_ConfigUsed(th, i)[field] = C27_ConfigUsed(second, i)[field]
                      \/ C27_ConfigUsed(th, i)[field] = built[i].f[field]
                      \/ /\ field \in DOMAIN others
                         /\ C27_ConfigUsed(th, i)[field] = others[field]
                 /\ DOMAIN others = {} =>
                      C27_ConfigUsed(th, i) = C27_ConfigUsed(first, i)

\* thread 1 called with the permissive policy, which sets stop_on_conflict to
\* false, on evidence with conflicts; thread 2 called with the strict policy,
\* which sets it to true. Thread 1 returned STOP from the uncertainty gate
\* and recorded stop_on_conflict true in config_used; run alone, before or
\* after thread 2's call, it returns RESTRICT and records false.
C27_Witness ==
  /\ threads[1].pc = "returned"
  /\ threads[2].pc # "idle"
  /\ threads[1].policy = PermissivePolicy
  /\ threads[2].policy = StrictPolicy
  /\ Len(gates) = 1
  /\ gates[1].kind = "uncertainty"
  /\ threads[1].evidence = Evidence(Unverifiable, Conflicts, EmptyDict)
  /\ threads[1].decision.action = STOP
  /\ threads[1].decision.final_gate = "uncertainty"
  /\ C27_ConfigUsed(threads[1], 1).stop_on_conflict = TRUE
  /\ C24_First(1).thread.decision.action = RESTRICT
  /\ C24_Second(1, 2).thread.decision.action = RESTRICT
  /\ C27_ConfigUsed(C24_First(1).thread, 1).stop_on_conflict = FALSE
  /\ C27_ConfigUsed(C24_Second(1, 2).thread, 1).stop_on_conflict = FALSE

\* what the call that just returned returns from a pipeline newly built with
\* the same constructor arguments
C28_Fresh ==
  RunGates(built,
           [IdleThread EXCEPT
              !.pc = "running", !.intent = intent, !.context = context,
              !.evidence = evidence, !.policy = policy,
              !.decision = StartDecision(intent, context, evidence, policy,
                                         decision.trace_id)],
           hash_seed).thread

\* C28: an evaluate call with no policy, or with a policy that has no entry
\* for any gate of the pipeline, returns the action and the rationale that a
\* newly constructed pipeline returns for the same input, whatever calls the
\* gate objects served before.
C28_NoPolicyCallIsAsFresh ==
  (/\ status = "returned"
   /\ \A i \in 1..Len(gates) : DOMAIN PolicyConfig(policy, gates[i].name) = {})
    => /\ C28_Fresh.pc = "returned"
       /\ decision.action = C28_Fresh.decision.action
       /\ decision.rationale = C28_Fresh.decision.rationale


ConditionOperands ==
  {NoneV, BoolV(TRUE), IntV(5), FloatV(50), StrV("re"),
   ListV(<<IntV(1), IntV(9)>>), ListV(<<FloatV(50), FloatV(90)>>),
   ListV(<<StrV("vip"), IntV(5)>>), ListV(<<IntV(9), IntV(1)>>)}
ConditionValues ==
  {NoneV, BoolV(TRUE), IntV(0), IntV(1), IntV(5), IntV(9), IntV(10), FloatV(50),
   FloatV(90), FloatV(95), StrV("refund"), ListV(<<StrV("vip"), IntV(5)>>)}

\* the document: rules: [{name: range, conditions: {intent.confidence:
\* {operator: operand}}, action: STOP}]
ConditionDocument(operator, operand) ==
  Document(StrV("1.0"), StrV("strict"),
           ListV(<<RuleEntry(StrV("range"),
                             DictV("intent.confidence" :> DictV(operator :> operand)),
                             StrV("STOP"), Absent, Absent)>>),
           Absent)
\* the operand as the evaluator's rule holds it
ConditionExpected(operand) ==
  IF operand.t = "list" THEN ListOperand(operand.items) ELSE Operand(operand)

InitCondition ==
  /\ file \in {ConditionDocument(operator, operand) :
                 operator \in SUPPORTED_OPERATORS, operand \in ConditionOperands}
  /\ loaded = NoneV
  /\ restored = NoRestored
  /\ threads = NoThreads
  /\ http = NoHttp
  /\ graph = NoGraph
  /\ policy = NoPolicy
  /\ gates = <<>>
  /\ built = <<>>
  /\ default_action = ALLOW
  /\ hash_seed = 0
  /\ issued = 0
  /\ status = "idle"
  /\ exception = ""
  /\ intent = NoIntent
  /\ context = NoContext
  /\ evidence = NoEvidence
  /\ decision = NoDecision
  /\ winning_gate = None
  /\ primary_gate = None
  /\ primary_reason_type = <<"default">>
  /\ idx = 1
  /\ trail = <<>>
  /\ repeated = FALSE
  /\ prev = NoDecision

\* validate_policy_schema(document): it returns, or raises
\* PolicyValidationError with the errors it collected
ValidateCondition ==
  /\ status = "idle"
  /\ issued < MaxCalls
  /\ \E r \in {validate_policy_schema(file.d)} :
       /\ status' = IF r.raised # "" THEN "raised" ELSE "returned"
       /\ exception' = r.raised
       /\ trail' = <<[raised |-> r.raised, call |-> "validate_policy_schema",
                      errors |-> r.errors]>>
  /\ issued' = issued + 1
  /\ UNCHANGED <<graph, http, threads, restored, file, loaded, gates, built, default_action,
                 hash_seed, policy, intent, context, evidence, decision, winning_gate,
                 primary_gate, primary_reason_type, idx, repeated, prev>>

\* PolicyEvaluator(document)._apply_operator(operator, value, expected) on the
\* condition of the document's rule; value is what _get_value found
ApplyCondition(value) ==
  /\ status \in {"returned", "raised"}
  /\ Len(trail) = 1
  /\ \E operator \in SUPPORTED_OPERATORS, operand \in ConditionOperands :
       /\ file = ConditionDocument(operator, operand)
       /\ trail' = Append(trail,
                          [expected |-> operand, value |-> value,
                           operator |-> operator, call |-> "_apply_operator",
                           result |-> apply_operator(operator, value,
                                                     ConditionExpected(operand))])
  /\ UNCHANGED <<graph, http, threads, restored, file, loaded, gates, built, default_action,
                 hash_seed, issued, status, exception, policy, intent, context, evidence,
                 decision, winning_gate, primary_gate, primary_reason_type, idx, repeated,
                 prev>>

NextCondition ==
  \/ ValidateCondition
  \/ \E value \in ConditionValues : ApplyCondition(value)
  \/ EvaluatorCollect

SpecCondition == InitCondition /\ [][NextCondition]_vars

\* the two ends of a two-element numeric range lo <= hi
C30_IsRange(operand) ==
  /\ operand.t = "list"
  /\ Len(operand.items) = 2
  /\ IsNumber(operand.items[1]) /\ IsNumber(operand.items[2])
  /\ Hundredths(operand.items[1]) <= Hundredths(operand.items[2])

\* C30: a condition "between: [lo, hi]" with numbers lo <= hi is accepted by
\* validate_policy_schema, and the evaluator matches it exactly for the
\* numbers v with lo <= v <= hi, both ends included.
C30_BetweenRangeValidatesAndMatches ==
  (/\ Len(trail) = 2
   /\ trail[2].operator = "between"
   /\ C30_IsRange(trail[2].expected)
   /\ IsNumber(trail[2].value)) =>
    /\ trail[1].raised = ""
    /\ trail[1].errors = <<>>
    /\ trail[2].result =
         PyBool(/\ Hundredths(trail[2].expected.items[1]) <= Hundredths(trail[2].value)
                /\ Hundredths(trail[2].value) <= Hundredths(trail[2].expected.items[2]))

====
